---- MODULE Spec2Model ----
(***************************************************************************)
(* A model of the search engine's core: the LRU+TTL query cache            *)
(* (Lab4/cache.py), the serving path in front of the ranker                *)
(* (Lab4/frontend_enhanced.py, Lab4/ranking.py), the persistent store      *)
(* (Lab3/storage.py) and the crawl loop (Lab4/crawler.py).                 *)
(*                                                                         *)
(* Python strings are sequences of one-character strings, so that          *)
(* lower(), strip(), startswith() and the f-string that builds a cache     *)
(* key are computed and not assumed.                                       *)
(***************************************************************************)
EXTENDS Integers, Sequences, FiniteSets, TLC

VARIABLES
    lru,        \* the LRUCache object: cache, timestamps, capacity, ttl, hits, misses, evictions
    now,        \* the wall clock read by time.time()
    last,       \* the last call made and what it returned
    ghost,      \* bookkeeping per stored cache key (times of last put and use, or its query)
    database,   \* the SearchEngineDB tables and their AUTOINCREMENT counters
    hist,       \* the (text, id) pairs the store's inserts have returned
    thr,        \* per thread: the call it is in, its position in it and its locals
    lock,       \* LRUCache.lock: the thread holding it, or 0
    seq,        \* the cache as the calls leave it when run one after the other
    cr,         \* the Crawler object and the position of its crawl loop
    trace,      \* what the crawl run has fetched and flushed so far
    pr          \* a page_rank or normalize_page_rank call: its arguments, locals and result

cacheVars == <<lru, now, last, ghost>>
storeVars == <<database, hist>>
concVars == <<thr, lock, seq>>
crawlVars == <<cr, trace, pr>>

vars == <<lru, now, last, ghost, database, hist, thr, lock, seq, cr, trace, pr>>

\* the parts of the state a specification does not use keep these values
StoreOff == database = <<>> /\ hist = <<>>
ConcOff == thr = <<>> /\ lock = 0 /\ seq = <<>>
CrawlOff == cr = <<>> /\ trace = <<>> /\ pr = <<>>

None == "None"

-----------------------------------------------------------------------------
(* Strings *)

Range(s) == {s[i] : i \in 1..Len(s)}

\* str.lower() on one character
LowerChar(ch) ==
    CASE ch = "A" -> "a"
      [] ch = "B" -> "b"
      [] ch = "P" -> "p"
      [] ch = "Q" -> "q"
      [] OTHER -> ch

\* str.upper() on one character
UpperChar(ch) ==
    CASE ch = "a" -> "A"
      [] ch = "b" -> "B"
      [] ch = "p" -> "P"
      [] ch = "q" -> "Q"
      [] OTHER -> ch

\* str.lower()
Lower(s) == [i \in 1..Len(s) |-> LowerChar(s[i])]

IsSpace(ch) == ch = " "

\* str.strip(): whitespace removed at both ends
RECURSIVE LStrip(_)
LStrip(s) == IF s # <<>> /\ IsSpace(Head(s)) THEN LStrip(Tail(s)) ELSE s

RECURSIVE RStrip(_)
RStrip(s) ==
    IF s # <<>> /\ IsSpace(s[Len(s)]) THEN RStrip(SubSeq(s, 1, Len(s) - 1)) ELSE s

Strip(s) == RStrip(LStrip(s))

\* str.startswith(prefix)
StartsWith(s, p) == Len(p) <= Len(s) /\ SubSeq(s, 1, Len(p)) = p

Digit(d) ==
    CASE d = 0 -> "0" [] d = 1 -> "1" [] d = 2 -> "2" [] d = 3 -> "3" [] d = 4 -> "4"
      [] d = 5 -> "5" [] d = 6 -> "6" [] d = 7 -> "7" [] d = 8 -> "8" [] d = 9 -> "9"

\* str(n) for n >= 0, as the f-string formats page and per_page
RECURSIVE IntStr(_)
IntStr(n) == IF n < 10 THEN <<Digit(n)>> ELSE IntStr(n \div 10) \o <<Digit(n % 10)>>

-----------------------------------------------------------------------------
(* LRUCache (Lab4/cache.py).  self.cache, an OrderedDict, is the sequence  *)
(* of its items, oldest first; self.timestamps is a function on the keys.  *)

\* LRUCache.__init__
NewLRU(capacity, ttl) ==
    [cache |-> <<>>, timestamps |-> <<>>, capacity |-> capacity, ttl |-> ttl,
     hits |-> 0, misses |-> 0, evictions |-> 0]

CacheKeys(od) == {od[i].key : i \in 1..Len(od)}

\* od[key]
Lookup(od, key) == (CHOOSE i \in 1..Len(od) : od[i].key = key)

\* del od[key]
RECURSIVE DelKey(_, _)
DelKey(od, key) ==
    IF od = <<>> THEN <<>>
    ELSE IF Head(od).key = key THEN Tail(od)
    ELSE <<Head(od)>> \o DelKey(Tail(od), key)

\* od.move_to_end(key)
MoveToEnd(od, key) == DelKey(od, key) \o <<od[Lookup(od, key)]>>

\* od[key] = value: an existing key keeps its position, a new one goes last
SetItem(od, key, value) ==
    IF key \in CacheKeys(od)
    THEN [od EXCEPT ![Lookup(od, key)].value = value]
    ELSE Append(od, [key |-> key, value |-> value])

\* del d[key] on a plain dict
DictDel(d, key) == [k \in (DOMAIN d) \ {key} |-> d[k]]

\* d[key] = value on a plain dict
DictSet(d, key, value) == [k \in (DOMAIN d) \cup {key} |-> IF k = key THEN value ELSE d[k]]

\* the expiry test of LRUCache.get
Expired(c, key, t) == t - c.timestamps[key] > c.ttl

\* LRUCache.get with a hit that also renews the entry's timestamp
LRUGetRefreshing(c, key, t) ==
    IF key \notin CacheKeys(c.cache)
    THEN [c |-> [c EXCEPT !.misses = @ + 1], ret |-> None, branch |-> "absent"]
    ELSE IF t - c.timestamps[key] > c.ttl
    THEN [c |-> [c EXCEPT !.cache = DelKey(@, key),
                          !.timestamps = DictDel(@, key),
                          !.misses = @ + 1],
          ret |-> None, branch |-> "expired"]
    ELSE LET moved == MoveToEnd(c.cache, key)
         IN  [c |-> [c EXCEPT !.cache = moved, !.hits = @ + 1,
                              !.timestamps = DictSet(@, key, t)],
              ret |-> moved[Len(moved)].value, branch |-> "hit"]

\* LRUCache.get: the new object and the value returned
LRUGet(c, key, t) ==
    IF key \notin CacheKeys(c.cache)
    THEN [c |-> [c EXCEPT !.misses = @ + 1], ret |-> None, branch |-> "absent"]
    ELSE IF Expired(c, key, t)
    THEN [c |-> [c EXCEPT !.cache = DelKey(@, key),
                          !.timestamps = DictDel(@, key),
                          !.misses = @ + 1],
          ret |-> None, branch |-> "expired"]
    ELSE LET moved == MoveToEnd(c.cache, key)
         IN  [c |-> [c EXCEPT !.cache = moved, !.hits = @ + 1],
              ret |-> moved[Len(moved)].value, branch |-> "hit"]

\* an eviction that takes the newest item instead of the oldest
EvictNewest(c) ==
    LET newest_key == c.cache[Len(c.cache)].key
    IN  [c EXCEPT !.cache = DelKey(@, newest_key),
                  !.timestamps = DictDel(@, newest_key),
                  !.evictions = @ + 1]

\* the eviction branch of LRUCache.put: the oldest item goes
EvictOldest(c) ==
    LET oldest_key == Head(c.cache).key
    IN  [c EXCEPT !.cache = DelKey(@, oldest_key),
                  !.timestamps = DictDel(@, oldest_key),
                  !.evictions = @ + 1]

\* LRUCache.put with the capacity test off by one (> for >=)
LRUPutOffByOne(c, key, value, t) ==
    LET c1 == IF key \in CacheKeys(c.cache)
              THEN [c EXCEPT !.cache = MoveToEnd(@, key)]
              ELSE IF Len(c.cache) > c.capacity THEN EvictOldest(c) ELSE c
    IN  [c1 EXCEPT !.cache = SetItem(@, key, value),
                   !.timestamps = DictSet(@, key, t)]

\* LRUCache.put with the capacity test made before the key test
LRUPutEvictFirst(c, key, value, t) ==
    LET c0 == IF Len(c.cache) >= c.capacity THEN EvictOldest(c) ELSE c
        c1 == IF key \in CacheKeys(c0.cache)
              THEN [c0 EXCEPT !.cache = MoveToEnd(@, key)]
              ELSE c0
    IN  [c1 EXCEPT !.cache = SetItem(@, key, value),
                   !.timestamps = DictSet(@, key, t)]

\* LRUCache.put
LRUPut(c, key, value, t) ==
    LET c1 == IF key \in CacheKeys(c.cache)
              THEN [c EXCEPT !.cache = MoveToEnd(@, key)]
              ELSE IF Len(c.cache) >= c.capacity THEN EvictOldest(c) ELSE c
    IN  [c1 EXCEPT !.cache = SetItem(@, key, value),
                   !.timestamps = DictSet(@, key, t)]

\* LRUCache.clear
LRUClear(c) == [c EXCEPT !.cache = <<>>, !.timestamps = <<>>]

\* LRUCache.get_stats (hit_rate is hits * 100 / total_requests, kept as the pair)
LRUGetStats(c) ==
    [capacity |-> c.capacity, size |-> Len(c.cache), hits |-> c.hits,
     misses |-> c.misses, evictions |-> c.evictions,
     total_requests |-> c.hits + c.misses]

\* LRUCache.reset_stats
LRUResetStats(c) == [c EXCEPT !.hits = 0, !.misses = 0, !.evictions = 0]

-----------------------------------------------------------------------------
(* QueryCache (Lab4/cache.py) *)

Colon == <<":">>

\* the normalisation of QueryCache._make_key and QueryCache.invalidate
NormalizeQuery(query) == Strip(Lower(query))

\* QueryCache._make_key
MakeKey(query, page, per_page) ==
    NormalizeQuery(query) \o Colon \o IntStr(page) \o Colon \o IntStr(per_page)

\* the keys QueryCache.invalidate(query) selects
KeysToRemove(c, query) ==
    {k \in CacheKeys(c.cache) : StartsWith(k, NormalizeQuery(query) \o Colon)}

RECURSIVE DelKeys(_, _)
DelKeys(od, ks) ==
    IF od = <<>> THEN <<>>
    ELSE IF Head(od).key \in ks THEN DelKeys(Tail(od), ks)
    ELSE <<Head(od)>> \o DelKeys(Tail(od), ks)

\* QueryCache.invalidate(query) with a query
QCInvalidate(c, query) ==
    LET ks == KeysToRemove(c, query)
    IN  [c EXCEPT !.cache = DelKeys(@, ks),
                  !.timestamps = [k \in (DOMAIN @) \ ks |-> @[k]]]

-----------------------------------------------------------------------------
(* Bounds and input sets of the cache specifications *)

MaxTime == 2
MaxCount == 2

Capacities == {1, 2}
TTLs == {1}
Values == {"v1", "v2"}

\* the keys and queries used on the LRU cache directly
LQueries == {<<"a">>, <<"b">>}
LKeys == {MakeKey(<<"a">>, 1, 5), MakeKey(<<"a">>, 2, 5), MakeKey(<<"b">>, 1, 5)}

NoCall == [op |-> "init", key |-> <<>>, value |-> None, ret |-> None, branch |-> "none"]

\* Bookkeeping beside the cache: for every stored key, when it was last put
\* and when it was last put or hit.
GhostAfter(g, c2, key, isPut, t) ==
    [k \in CacheKeys(c2.cache) |->
        IF k = key
        THEN IF isPut \/ k \notin DOMAIN g THEN [put |-> t, use |-> t]
             ELSE [put |-> g[k].put, use |-> t]
        ELSE g[k]]

GhostKeep(g, c2) == [k \in CacheKeys(c2.cache) |-> g[k]]

CacheInit ==
    /\ \E capacity \in Capacities, ttl \in TTLs : lru = NewLRU(capacity, ttl)
    /\ now = 0
    /\ last = NoCall
    /\ ghost = <<>>
    /\ StoreOff /\ ConcOff /\ CrawlOff

\* time passes
Tick ==
    /\ now < MaxTime
    /\ now' = now + 1
    /\ last' = [NoCall EXCEPT !.op = "tick"]
    /\ UNCHANGED <<lru, ghost, storeVars, concVars, crawlVars>>

\* a call of LRUCache.get(key)
LGet(key) ==
    LET r == LRUGet(lru, key, now)
    IN  /\ lru.hits + lru.misses < MaxCount
        /\ lru' = r.c
        /\ last' = [NoCall EXCEPT !.op = "get", !.key = key, !.ret = r.ret, !.branch = r.branch]
        /\ ghost' = IF r.branch = "hit" THEN GhostAfter(ghost, r.c, key, FALSE, now)
                    ELSE GhostKeep(ghost, r.c)
        /\ UNCHANGED <<now, storeVars, concVars, crawlVars>>

PutBranch(c, key) ==
    IF key \in CacheKeys(c.cache) THEN "overwrite"
    ELSE IF Len(c.cache) >= c.capacity THEN "evict" ELSE "new"

\* a call of LRUCache.put(key, value)
LPut(key, value) ==
    LET c2 == LRUPut(lru, key, value, now)
    IN  /\ c2.evictions <= MaxCount
        /\ lru' = c2
        /\ last' = [NoCall EXCEPT !.op = "put", !.key = key, !.value = value,
                                  !.branch = PutBranch(lru, key)]
        /\ ghost' = GhostAfter(ghost, c2, key, TRUE, now)
        /\ UNCHANGED <<now, storeVars, concVars, crawlVars>>

\* a call of LRUCache.clear(), which is also QueryCache.invalidate()
LClear ==
    /\ lru' = LRUClear(lru)
    /\ last' = [NoCall EXCEPT !.op = "clear"]
    /\ ghost' = <<>>
    /\ UNCHANGED <<now, storeVars, concVars, crawlVars>>

\* a call of QueryCache.invalidate(query)
LInvalidate(query) ==
    LET c2 == QCInvalidate(lru, query)
    IN  /\ lru' = c2
        /\ last' = [NoCall EXCEPT !.op = "invalidate", !.key = query]
        /\ ghost' = GhostKeep(ghost, c2)
        /\ UNCHANGED <<now, storeVars, concVars, crawlVars>>

LRUNext ==
    \/ Tick
    \/ \E key \in LKeys : LGet(key)
    \/ \E key \in LKeys, value \in Values : LPut(key, value)
    \/ LClear
    \/ \E query \in LQueries : LInvalidate(query)

SpecLRU == CacheInit /\ [][LRUNext]_vars

StoredKeys == CacheKeys(lru.cache)

-----------------------------------------------------------------------------
\* C1: for a capacity of at least 1, whatever get, put, clear and invalidate
\* calls are made (also after entries expired), the cache never stores more
\* entries than its capacity.
SizeWithinCapacity ==
    /\ lru.capacity >= 1
    /\ Len(lru.cache) <= lru.capacity
    /\ Cardinality(DOMAIN lru.timestamps) <= lru.capacity

\* a put has just evicted, the cache is full, and an entry of it is past its TTL
SizeWithinCapacityWitness ==
    /\ last.op = "put"
    /\ last.branch = "evict"
    /\ Len(lru.cache) = lru.capacity
    /\ \E k \in StoredKeys : now - lru.timestamps[k] > lru.ttl

\* C2: get never returns a value whose most recent put is more than TTL old:
\* a get of such a stored key returns None, counts one miss and no eviction,
\* and removes the key from the entry map and from the timestamp map.  A hit
\* returns the value, makes the key the most recently used one and leaves its
\* insertion time alone; a put sets the insertion time to the time of the put.
NoStaleHit ==
    (last.op = "get" /\ last.ret # None) =>
        /\ last.key \in DOMAIN ghost
        /\ now - ghost[last.key].put <= lru.ttl

GetStep ==
    \A k \in LKeys :
        (last'.op = "get" /\ last'.key = k /\ k \in StoredKeys) =>
            IF now - ghost[k].put > lru.ttl
            THEN /\ last'.ret = None
                 /\ lru'.misses = lru.misses + 1
                 /\ lru'.hits = lru.hits
                 /\ lru'.evictions = lru.evictions
                 /\ k \notin CacheKeys(lru'.cache)
                 /\ k \notin DOMAIN lru'.timestamps
            ELSE /\ last'.ret = lru.cache[Lookup(lru.cache, k)].value
                 /\ lru'.hits = lru.hits + 1
                 /\ lru'.misses = lru.misses
                 /\ lru'.cache[Len(lru'.cache)].key = k
                 /\ lru'.timestamps = lru.timestamps

PutSetsTime ==
    \A k \in LKeys :
        (last'.op = "put" /\ last'.key = k) => lru'.timestamps[k] = now

TimestampIsLastPut ==
    /\ DOMAIN lru.timestamps = StoredKeys
    /\ \A k \in StoredKeys : lru.timestamps[k] = ghost[k].put

ExpiredEntryNeverHit ==
    /\ [](NoStaleHit /\ TimestampIsLastPut)
    /\ [][GetStep /\ PutSetsTime]_vars

\* a get has just missed on a stored key that was hit before and then expired
ExpiredEntryNeverHitWitness ==
    /\ last.op = "get"
    /\ last.branch = "expired"
    /\ last.key \notin StoredKeys
    /\ lru.hits >= 1
    /\ lru.misses >= 1

\* C3: a put of a new key into a full cache removes exactly one entry, the
\* one whose last put or hit is the oldest, counts exactly one eviction and
\* leaves every other entry in place; a key used after all the others is not
\* the one evicted.
OverflowPutStep ==
    \A k \in LKeys :
        (last'.op = "put" /\ last'.key = k /\ k \notin StoredKeys
            /\ Len(lru.cache) = lru.capacity) =>
        \E e \in StoredKeys :
            /\ CacheKeys(lru'.cache) = (StoredKeys \ {e}) \cup {k}
            /\ \A x \in StoredKeys : ghost[e].use <= ghost[x].use
            /\ \A x \in StoredKeys \ {e} :
                   (\A y \in StoredKeys \ {x} : ghost[x].use > ghost[y].use)
                       => x \in CacheKeys(lru'.cache)
            /\ lru'.evictions = lru.evictions + 1
            /\ DelKey(lru'.cache, k) = DelKey(lru.cache, e)
            /\ \A x \in StoredKeys \ {e} : lru'.timestamps[x] = lru.timestamps[x]
            /\ lru'.cache[Len(lru'.cache)] = [key |-> k, value |-> last'.value]
            /\ Len(lru'.cache) = lru.capacity

RecencyOrder ==
    \A i, j \in 1..Len(lru.cache) :
        i < j => ghost[lru.cache[i].key].use <= ghost[lru.cache[j].key].use

EvictsLeastRecentlyUsed == []RecencyOrder /\ [][OverflowPutStep]_vars

\* a put has just evicted from a cache of two, and the entry that stayed had
\* been hit by a get after it was put
EvictsLeastRecentlyUsedWitness ==
    /\ last.op = "put"
    /\ last.branch = "evict"
    /\ lru.capacity = 2
    /\ \E x \in StoredKeys \ {last.key} : ghost[x].use > ghost[x].put

\* C4: a put on a stored key (also in a full cache) replaces its value, makes
\* it the most recently used entry and resets its insertion time; the stored
\* keys, the size, the other entries and the counters stay as they were.
OverwritePutStep ==
    \A k \in LKeys :
        (last'.op = "put" /\ last'.key = k /\ k \in StoredKeys) =>
            /\ lru'.cache[Len(lru'.cache)] = [key |-> k, value |-> last'.value]
            /\ lru'.timestamps[k] = now
            /\ CacheKeys(lru'.cache) = StoredKeys
            /\ Len(lru'.cache) = Len(lru.cache)
            /\ DelKey(lru'.cache, k) = DelKey(lru.cache, k)
            /\ \A x \in StoredKeys \ {k} : lru'.timestamps[x] = lru.timestamps[x]
            /\ lru'.evictions = lru.evictions
            /\ lru'.hits = lru.hits
            /\ lru'.misses = lru.misses

OverwriteKeepsEntries == [][OverwritePutStep]_vars

\* a put has just overwritten, with a later time, the older entry of a full
\* cache of two
OverwriteKeepsEntriesWitness ==
    /\ last.op = "put"
    /\ last.branch = "overwrite"
    /\ lru.capacity = 2
    /\ Len(lru.cache) = 2
    /\ lru.timestamps[last.key] > lru.timestamps[lru.cache[1].key]
    /\ ghost[last.key].put > 0

-----------------------------------------------------------------------------
(* The QueryCache interface: get_results, cache_results, invalidate *)

QQueries == {<<"a">>, <<"A", " ">>, <<"a", ":", "1">>, <<"b">>}
QPages == {1, 2}
QPerPages == {5, 10}

\* Bookkeeping beside the cache: the normalized query, page and page size
\* every stored key was cached for.
QGhostAfter(g, c2, key, query, page, per_page) ==
    [k \in CacheKeys(c2.cache) |->
        IF k = key
        THEN [query |-> NormalizeQuery(query), page |-> page, per_page |-> per_page]
        ELSE g[k]]

\* a call of QueryCache.get_results(query, page, per_page)
QGetResults(query, page, per_page) ==
    LET key == MakeKey(query, page, per_page)
        r == LRUGet(lru, key, now)
    IN  /\ lru.hits + lru.misses < MaxCount
        /\ lru' = r.c
        /\ last' = [NoCall EXCEPT !.op = "get_results", !.key = key, !.ret = r.ret,
                                  !.branch = r.branch]
        /\ ghost' = GhostKeep(ghost, r.c)
        /\ UNCHANGED <<now, storeVars, concVars, crawlVars>>

\* a call of QueryCache.cache_results(query, results, page, per_page)
QCacheResults(query, results, page, per_page) ==
    LET key == MakeKey(query, page, per_page)
        c2 == LRUPut(lru, key, results, now)
    IN  /\ c2.evictions <= MaxCount
        /\ lru' = c2
        /\ last' = [NoCall EXCEPT !.op = "cache_results", !.key = key, !.value = results,
                                  !.branch = PutBranch(lru, key)]
        /\ ghost' = QGhostAfter(ghost, c2, key, query, page, per_page)
        /\ UNCHANGED <<now, storeVars, concVars, crawlVars>>

\* a call of QueryCache.invalidate(query) with a query string
QInvalidate(query) ==
    LET c2 == QCInvalidate(lru, query)
    IN  /\ lru' = c2
        /\ last' = [NoCall EXCEPT !.op = "invalidate", !.key = query]
        /\ ghost' = GhostKeep(ghost, c2)
        /\ UNCHANGED <<now, storeVars, concVars, crawlVars>>

\* a call of QueryCache.invalidate() (query is None)
QInvalidateAll ==
    /\ lru' = LRUClear(lru)
    /\ last' = [NoCall EXCEPT !.op = "invalidate_all"]
    /\ ghost' = <<>>
    /\ UNCHANGED <<now, storeVars, concVars, crawlVars>>

QCNext ==
    \/ \E query \in QQueries, page \in QPages, per_page \in QPerPages :
           QGetResults(query, page, per_page)
    \/ \E query \in QQueries, page \in QPages, per_page \in QPerPages :
           QCacheResults(query, "v1", page, per_page)
    \/ \E query \in QQueries : QInvalidate(query)
    \/ QInvalidateAll

SpecQC == CacheInit /\ [][QCNext]_vars

\* C5: invalidate(q) removes every cached page of the normalized query q and
\* only of that query: the entries of every other normalized query stay as
\* they were, and so do the hit, miss and eviction counters; invalidate()
\* with no query empties the cache.
CountersKept ==
    /\ lru'.hits = lru.hits
    /\ lru'.misses = lru.misses
    /\ lru'.evictions = lru.evictions

InvalidateStep ==
    /\ \A q \in QQueries :
        (last'.op = "invalidate" /\ last'.key = q) =>
            LET mine == {k \in StoredKeys : ghost[k].query = NormalizeQuery(q)}
            IN  /\ CountersKept
                /\ CacheKeys(lru'.cache) = StoredKeys \ mine
                /\ lru'.cache = DelKeys(lru.cache, mine)
                /\ DOMAIN lru'.timestamps = StoredKeys \ mine
                /\ \A k \in StoredKeys \ mine : lru'.timestamps[k] = lru.timestamps[k]
    /\ last'.op = "invalidate_all" =>
            /\ CountersKept
            /\ lru'.cache = <<>>
            /\ DOMAIN lru'.timestamps = {}

InvalidateOnlyThatQuery == [][InvalidateStep]_vars

-----------------------------------------------------------------------------
(* SearchEngineDB (Lab3/storage.py).  A table is the set of its rows; an   *)
(* AUTOINCREMENT key is one more than the largest key handed out so far.   *)

\* what get_word_id and get_doc_id return for no row (None, which is falsy)
NoId == 0

\* page_rank REAL DEFAULT 1.0, in millionths
Scale == 1000000
DefaultPageRank == Scale

\* SearchEngineDB.__init__ on a fresh file
NewDB ==
    [lexicon |-> {}, wseq |-> 0, docs |-> {}, dseq |-> 0, inverted |-> {}, links |-> <<>>]

\* SELECT word_id FROM Lexicon WHERE word = ? (TEXT compares byte by byte)
DBGetWordId(db, word) ==
    IF \E r \in db.lexicon : r.word = word
    THEN (CHOOSE r \in db.lexicon : r.word = word).word_id
    ELSE NoId

\* SELECT doc_id FROM DocumentIndex WHERE url = ?
DBGetDocId(db, url) ==
    IF \E r \in db.docs : r.url = url
    THEN (CHOOSE r \in db.docs : r.url = url).doc_id
    ELSE NoId

\* insert_word with no UNIQUE constraint on Lexicon.word: the INSERT always succeeds
DBInsertWordNoUnique(db, word) ==
    [db |-> [db EXCEPT !.lexicon = @ \cup {[word_id |-> db.wseq + 1, word |-> word]},
                       !.wseq = @ + 1],
     ret |-> db.wseq + 1, raised |-> FALSE]

\* SearchEngineDB.insert_word: the INSERT, or on IntegrityError the SELECT
DBInsertWord(db, word) ==
    IF \E r \in db.lexicon : r.word = word
    THEN [db |-> db, ret |-> DBGetWordId(db, word), raised |-> DBGetWordId(db, word) = NoId]
    ELSE [db |-> [db EXCEPT !.lexicon = @ \cup {[word_id |-> db.wseq + 1, word |-> word]},
                            !.wseq = @ + 1],
          ret |-> db.wseq + 1, raised |-> FALSE]

\* SearchEngineDB.insert_document: the INSERT, or on IntegrityError the SELECT
DBInsertDocument(db, url, title) ==
    IF \E r \in db.docs : r.url = url
    THEN [db |-> db, ret |-> DBGetDocId(db, url), raised |-> DBGetDocId(db, url) = NoId]
    ELSE [db |-> [db EXCEPT !.docs = @ \cup {[doc_id |-> db.dseq + 1, url |-> url,
                                             title |-> title,
                                             page_rank |-> DefaultPageRank]},
                            !.dseq = @ + 1],
          ret |-> db.dseq + 1, raised |-> FALSE]

\* SearchEngineDB.update_document_title
DBUpdateDocumentTitle(db, doc_id, title) ==
    [db EXCEPT !.docs = {IF r.doc_id = doc_id THEN [r EXCEPT !.title = title] ELSE r : r \in @}]

\* insert_inverted_index that ignores the IntegrityError: the stored row stays
DBInsertInvertedIndexIgnoring(db, word_id, doc_id, font_size) ==
    IF \E r \in db.inverted : r.word_id = word_id /\ r.doc_id = doc_id
    THEN db
    ELSE [db EXCEPT !.inverted =
             @ \cup {[word_id |-> word_id, doc_id |-> doc_id, font_size |-> font_size]}]

\* SearchEngineDB.insert_inverted_index: the INSERT, or on IntegrityError the UPDATE
DBInsertInvertedIndex(db, word_id, doc_id, font_size) ==
    IF \E r \in db.inverted : r.word_id = word_id /\ r.doc_id = doc_id
    THEN [db EXCEPT !.inverted =
             {IF r.word_id = word_id /\ r.doc_id = doc_id
              THEN [r EXCEPT !.font_size = font_size] ELSE r : r \in @}]
    ELSE [db EXCEPT !.inverted =
             @ \cup {[word_id |-> word_id, doc_id |-> doc_id, font_size |-> font_size]}]

\* SearchEngineDB.insert_link: the INSERT, an existing pair is ignored.  The
\* rows of LinkGraph are kept in the order of their insertion (the rowid).
DBInsertLink(db, from_doc_id, to_doc_id) ==
    IF \E k \in 1..Len(db.links) : db.links[k] = <<from_doc_id, to_doc_id>>
    THEN db
    ELSE [db EXCEPT !.links = Append(@, <<from_doc_id, to_doc_id>>)]

\* SearchEngineDB.get_statistics
DBGetStatistics(db) ==
    [total_words |-> Cardinality(db.lexicon), total_documents |-> Cardinality(db.docs),
     total_index_entries |-> Cardinality(db.inverted), total_links |-> Len(db.links)]

\* the row of a doc_id, and whether there is one
HasDoc(d, doc_id) == \E r \in d.docs : r.doc_id = doc_id
DocRow(d, doc_id) == CHOOSE r \in d.docs : r.doc_id = doc_id

\* a set of integers as the ascending sequence (rows come back in key order)
RECURSIVE Ascending(_)
Ascending(S) ==
    IF S = {} THEN <<>>
    ELSE LET x == CHOOSE y \in S : \A z \in S : y <= z
         IN  <<x>> \o Ascending(S \ {x})

-----------------------------------------------------------------------------
(* AdvancedRanker (Lab4/ranking.py).  Scores are fixed-point numbers in    *)
(* millionths; a division truncates.  The rows of InvertedIndex come back *)
(* in the order of its key (word_id, doc_id), the groups of a GROUP BY     *)
(* doc_id in ascending doc_id.                                             *)

\* math.log(n / d) in millionths, for the document counts of the stores used
LnMicro(n, d) ==
    CASE n = d -> 0
      [] n = 3 /\ d = 2 -> 405465
      [] n = 4 /\ d = 2 -> 693147
      [] n = 4 /\ d = 3 -> 287682
      [] n = 5 /\ d = 2 -> 916291
      [] n = 5 /\ d = 3 -> 510826
      [] n = 5 /\ d = 4 -> 223144

Min(a, b) == IF a < b THEN a ELSE b

\* AdvancedRanker._get_total_documents
TotalDocs(db) == Cardinality(db.docs)

\* the doc_ids with a posting of word_id
DocsWithWord(db, word_id) == {r.doc_id : r \in {x \in db.inverted : x.word_id = word_id}}

\* AdvancedRanker._calculate_idf
CalculateIdf(db, word) ==
    LET word_id == DBGetWordId(db, word)
        doc_freq == Cardinality(DocsWithWord(db, word_id))
    IN  IF word_id = NoId THEN 0
        ELSE IF doc_freq = 0 THEN 0
        ELSE LnMicro(TotalDocs(db) + 1, doc_freq + 1)

\* AdvancedRanker._calculate_tf times idf: idf / (total_words + 1), 0 for no words
TfIdf(db, doc_id, idf) ==
    LET total_words == Cardinality({x \in db.inverted : x.doc_id = doc_id})
    IN  IF total_words = 0 THEN 0 ELSE idf \div (total_words + 1)

\* AdvancedRanker._get_font_size_score
FontSizeScore(db, word_id, doc_id) ==
    LET rows == {x \in db.inverted : x.word_id = word_id /\ x.doc_id = doc_id}
    IN  IF rows = {} THEN 0
        ELSE Min(((CHOOSE x \in rows : TRUE).font_size * Scale) \div 7, Scale)

\* needle in haystack, on str
IsSubstring(needle, haystack) ==
    \E i \in 0..(Len(haystack) - Len(needle)) :
        SubSeq(haystack, i + 1, i + Len(needle)) = needle

\* _check_title_match comparing without lower()
CheckTitleMatchExact(db, word, doc_id) ==
    LET rows == {r \in db.docs : r.doc_id = doc_id}
    IN  IF rows = {} THEN FALSE
        ELSE LET title == (CHOOSE r \in rows : TRUE).title
             IN  title # <<>> /\ IsSubstring(word, title)

\* AdvancedRanker._check_title_match
CheckTitleMatch(db, word, doc_id) ==
    LET rows == {r \in db.docs : r.doc_id = doc_id}
    IN  IF rows = {} THEN FALSE
        ELSE LET title == (CHOOSE r \in rows : TRUE).title
             IN  title # <<>> /\ IsSubstring(Lower(word), Lower(title))

\* the weighted sum of the four signals (weights 0.4, 0.3, 0.2, 0.1)
CombinedScore(tfidf, page_rank, title_match, font_score) ==
    (4 * tfidf + 3 * Min(page_rank \div 10, Scale) + 2 * title_match + font_score) \div 10

\* list.sort(key = score, reverse = True): stable, descending
RECURSIVE InsertByScore(_, _)
InsertByScore(sorted, x) ==
    IF sorted = <<>> THEN <<x>>
    ELSE IF Head(sorted).score >= x.score THEN <<Head(sorted)>> \o InsertByScore(Tail(sorted), x)
    ELSE <<x>> \o sorted

RECURSIVE SortByScore(_)
SortByScore(results) ==
    IF results = <<>> THEN <<>>
    ELSE InsertByScore(SortByScore(SubSeq(results, 1, Len(results) - 1)),
                       results[Len(results)])

\* results[:limit]
Take(xs, n) == SubSeq(xs, 1, Min(n, Len(xs)))

\* AdvancedRanker.rank_single_word
RankSingleWord(db, word, limit) ==
    LET word_id == DBGetWordId(db, word)
        idf == CalculateIdf(db, word)
        doc_ids == Ascending({d \in DocsWithWord(db, word_id) : HasDoc(db, d)})
        Result(doc_id) ==
            LET d == DocRow(db, doc_id)
            IN  [url |-> d.url, title |-> d.title,
                 score |-> CombinedScore(TfIdf(db, doc_id, idf), d.page_rank,
                               IF CheckTitleMatch(db, word, doc_id) THEN Scale ELSE 0,
                               FontSizeScore(db, word_id, doc_id)),
                 page_rank |-> d.page_rank]
    IN  IF word_id = NoId THEN <<>>
        ELSE Take(SortByScore([i \in 1..Len(doc_ids) |-> Result(doc_ids[i])]), limit)

\* word_ids with an entry for the unknown words too
RECURSIVE KnownWordIdsWithNone(_, _)
KnownWordIdsWithNone(db, words) ==
    IF words = <<>> THEN <<>>
    ELSE <<DBGetWordId(db, Head(words))>> \o KnownWordIdsWithNone(db, Tail(words))

\* the word_ids of the known words, in query order
RECURSIVE KnownWordIds(_, _)
KnownWordIds(db, words) ==
    IF words = <<>> THEN <<>>
    ELSE LET word_id == DBGetWordId(db, Head(words))
         IN  (IF word_id # NoId THEN <<word_id>> ELSE <<>>) \o KnownWordIds(db, Tail(words))

\* SELECT DISTINCT doc_id FROM InvertedIndex WHERE word_id IN (...): the
\* rows in ascending (word_id, doc_id), a doc_id kept where it comes first
RECURSIVE DistinctDocs(_, _, _)
DistinctDocs(db, word_ids, found) ==
    IF word_ids = <<>> THEN found
    ELSE LET docs == Ascending(DocsWithWord(db, Head(word_ids)) \ Range(found))
         IN  DistinctDocs(db, Tail(word_ids), found \o docs)

RECURSIVE SumSeq(_)
SumSeq(xs) == IF xs = <<>> THEN 0 ELSE Head(xs) + SumSeq(Tail(xs))

\* AdvancedRanker.rank_multi_word
RankMultiWord(db, words, limit) ==
    LET word_ids == KnownWordIds(db, words)
        n == Len(word_ids)
        idset == Range(word_ids)
        hit == {r.doc_id : r \in {x \in db.inverted : x.word_id \in idset}}
        all == {d \in hit : Cardinality({x.word_id : x \in {y \in db.inverted :
                                  y.doc_id = d /\ y.word_id \in idset}}) = n}
        matching_doc_ids == IF all # {} THEN Ascending(all)
                            ELSE DistinctDocs(db, Ascending(idset), <<>>)
        \* doc_info is None: continue
        matching == SelectSeq(matching_doc_ids, LAMBDA d : HasDoc(db, d))
        Has(word_id, doc_id) ==
            \E x \in db.inverted : x.word_id = word_id /\ x.doc_id = doc_id
        \* the first query word with this id
        WordOf(word_id) ==
            words[CHOOSE i \in 1..Len(words) :
                      /\ DBGetWordId(db, words[i]) = word_id
                      /\ \A j \in 1..(i - 1) : DBGetWordId(db, words[j]) # word_id]
        Result(doc_id) ==
            LET d == DocRow(db, doc_id)
                total_tfidf == SumSeq([i \in 1..n |->
                    IF Has(word_ids[i], doc_id)
                    THEN TfIdf(db, doc_id, CalculateIdf(db, WordOf(word_ids[i]))) ELSE 0])
                total_font == SumSeq([i \in 1..n |->
                    IF Has(word_ids[i], doc_id)
                    THEN FontSizeScore(db, word_ids[i], doc_id) ELSE 0])
                title_matches == SumSeq([i \in 1..n |->
                    IF Has(word_ids[i], doc_id) /\ CheckTitleMatch(db, WordOf(word_ids[i]), doc_id)
                    THEN 1 ELSE 0])
            IN  [url |-> d.url, title |-> d.title,
                 score |-> CombinedScore(total_tfidf \div n, d.page_rank,
                               (title_matches * Scale) \div n, total_font \div n),
                 page_rank |-> d.page_rank]
    IN  IF words = <<>> THEN <<>>
        ELSE IF Len(words) = 1 THEN RankSingleWord(db, words[1], limit)
        ELSE IF word_ids = <<>> THEN <<>>
        ELSE Take(SortByScore([i \in 1..Len(matching) |-> Result(matching[i])]), limit)

-----------------------------------------------------------------------------
(* The /search handler (Lab4/frontend_enhanced.py) *)

ResultsPerPage == 5
RankLimit == 1000

\* str.split(): the maximal runs of non-whitespace
RECURSIVE Split(_)
Split(s) ==
    LET t == LStrip(s)
        n == IF \E i \in 1..Len(t) : IsSpace(t[i])
             THEN (CHOOSE i \in 1..Len(t) : IsSpace(t[i]) /\ \A j \in 1..(i - 1) : ~IsSpace(t[j])) - 1
             ELSE Len(t)
    IN  IF t = <<>> THEN <<>>
        ELSE <<SubSeq(t, 1, n)>> \o Split(SubSeq(t, n + 1, Len(t)))

\* str.capitalize()
Capitalize(w) == IF w = <<>> THEN <<>> ELSE <<UpperChar(Head(w))>> \o Lower(Tail(w))

\* str.replace(old, new) for a non-empty old
RECURSIVE Replace(_, _, _)
Replace(s, old, new) ==
    IF Len(s) < Len(old) THEN s
    ELSE IF StartsWith(s, old) THEN new \o Replace(SubSeq(s, Len(old) + 1, Len(s)), old, new)
    ELSE <<Head(s)>> \o Replace(Tail(s), old, new)

Bold(w) == <<"<", "b", ">">> \o w \o <<"<", "/", "b", ">">>

NoDescription ==
    <<"N", "o", " ", "d", "e", "s", "c", "r", "i", "p", "t", "i", "o", "n", " ",
      "a", "v", "a", "i", "l", "a", "b", "l", "e">>

\* the snippet of a result: the title with every query word highlighted
RECURSIVE Highlight(_, _)
Highlight(snippet, query_words) ==
    IF query_words = <<>> THEN snippet
    ELSE LET word == Head(query_words)
             s1 == Replace(snippet, word, Bold(word))
             s2 == Replace(s1, Capitalize(word), Bold(Capitalize(word)))
         IN  Highlight(s2, Tail(query_words))

\* the cache-miss path of process_query: rank, add snippets, paginate
LivePage(d, query, page, per_page) ==
    LET query_words == Split(query)
        urls == IF query_words = <<>> THEN <<>>
                ELSE IF Len(query_words) = 1 THEN RankSingleWord(d, query_words[1], RankLimit)
                ELSE RankMultiWord(d, query_words, RankLimit)
        enhanced_urls == [i \in 1..Len(urls) |->
            [url |-> urls[i].url, title |-> urls[i].title, score |-> urls[i].score,
             page_rank |-> urls[i].page_rank,
             snippet |-> Highlight(IF urls[i].title # <<>> THEN urls[i].title
                                   ELSE NoDescription, query_words)]]
        start == (page - 1) * per_page
        end == start + per_page
        pages == (Len(enhanced_urls) + per_page - 1) \div per_page
    IN  [urls |-> SubSeq(enhanced_urls, start + 1, Min(end, Len(enhanced_urls))),
         total_pages |-> IF pages = 0 THEN 1 ELSE pages]

\* the store the serving path reads: two documents, two words
SearchStore ==
    LET d1 == DBInsertDocument(NewDB, "http://site/1", <<>>).db
        d2 == DBUpdateDocumentTitle(d1, 1, <<"P", "q", " ", "a", "b">>)
        d3 == DBInsertWord(d2, <<"p", "q">>).db
        d4 == DBInsertWord(d3, <<"a", "b">>).db
        d5 == DBInsertInvertedIndex(DBInsertInvertedIndex(d4, 1, 1, 7), 2, 1, 7)
        d6 == DBInsertDocument(d5, "http://site/2", <<>>).db
        d7 == DBInsertInvertedIndex(d6, 2, 2, 2)
    IN  DBInsertLink(d7, 1, 2)

SKeywords == {<<"p", "q">>, <<"P", "q">>, <<"a", "b", " ">>, <<"p", "q", " ", "a", "b">>}
SPages == {1, 2}

\* the threads of the server that run process_query, and what one holds
\* between its steps
Handlers == {1, 2}
NoRequest == [pc |-> "idle", keywords |-> <<>>, page |-> 0, live |-> None]

SearchInit ==
    /\ \E capacity \in Capacities, ttl \in TTLs : lru = NewLRU(capacity, ttl)
    /\ now = 0
    /\ last = NoCall
    /\ ghost = <<>>
    /\ database = SearchStore
    /\ hist = <<>>
    /\ thr = [t \in Handlers |-> NoRequest]
    /\ lock = 0 /\ seq = <<>>
    /\ CrawlOff

\* a request GET /search?keywords=...&page=... up to the return of
\* query_cache.get_results, which holds the lock of the cache for the
\* whole call: a hit is answered from the cache, anything else goes on to
\* the search with the lock released
ProcessQuery(t, keywords, page) ==
    LET query == Strip(keywords)
        key == MakeKey(query, page, ResultsPerPage)
        r == LRUGet(lru, key, now)
    IN  /\ thr[t].pc = "idle"
        /\ lru.hits + lru.misses < MaxCount
        /\ lru' = r.c
        /\ IF r.branch = "hit"
           THEN /\ last' = [NoCall EXCEPT !.op = "search", !.key = keywords, !.value = page,
                                          !.ret = [urls |-> r.ret.urls,
                                                   total_pages |-> r.ret.total_pages,
                                                   cache_hit |-> TRUE],
                                          !.branch = "hit"]
                /\ thr' = thr
           ELSE /\ last' = [NoCall EXCEPT !.op = "get_results", !.key = keywords,
                                          !.value = page, !.branch = r.branch]
                /\ thr' = [thr EXCEPT ![t] = [pc |-> "search", keywords |-> keywords,
                                              page |-> page, live |-> None]]
        /\ UNCHANGED <<now, ghost, storeVars, lock, seq, crawlVars>>

\* a request whose page is not a number: int() raises before the cache is
\* asked, and the server answers with an error
ProcessQueryBadPage(t, keywords) ==
    /\ thr[t].pc = "idle"
    /\ last' = [NoCall EXCEPT !.op = "search", !.key = keywords, !.branch = "ValueError"]
    /\ UNCHANGED <<lru, now, ghost, storeVars, concVars, crawlVars>>

\* the search of a cache miss: the database is opened, the ranker runs and
\* the page of results is cut out
ProcessQuerySearch(t) ==
    /\ thr[t].pc = "search"
    /\ thr' = [thr EXCEPT ![t].pc = "cache",
                          ![t].live = LivePage(database, Strip(thr[t].keywords),
                                               thr[t].page, ResultsPerPage)]
    /\ last' = [NoCall EXCEPT !.op = "rank", !.key = thr[t].keywords, !.value = thr[t].page]
    /\ UNCHANGED <<lru, now, ghost, storeVars, lock, seq, crawlVars>>

\* except Exception: the database or the ranker raises, the error page is
\* returned and nothing is cached
ProcessQueryError(t) ==
    /\ thr[t].pc = "search"
    /\ thr' = [thr EXCEPT ![t] = NoRequest]
    /\ last' = [NoCall EXCEPT !.op = "search", !.key = thr[t].keywords,
                              !.value = thr[t].page, !.branch = "error"]
    /\ UNCHANGED <<lru, now, ghost, storeVars, lock, seq, crawlVars>>

\* query_cache.cache_results and the response of a cache miss; the cached
\* value is the tuple (page_urls, total_pages, False)
ProcessQueryCache(t) ==
    LET query == Strip(thr[t].keywords)
        key == MakeKey(query, thr[t].page, ResultsPerPage)
        live == thr[t].live
        cached == [urls |-> live.urls, total_pages |-> live.total_pages, cache_hit |-> FALSE]
        c2 == LRUPut(lru, key, cached, now)
    IN  /\ thr[t].pc = "cache"
        /\ c2.evictions <= MaxCount
        /\ lru' = c2
        /\ thr' = [thr EXCEPT ![t] = NoRequest]
        /\ last' = [NoCall EXCEPT !.op = "search", !.key = thr[t].keywords,
                                  !.value = thr[t].page,
                                  !.ret = [urls |-> live.urls,
                                           total_pages |-> live.total_pages,
                                           cache_hit |-> FALSE],
                                  !.branch = "miss"]
        /\ UNCHANGED <<now, ghost, storeVars, lock, seq, crawlVars>>

SearchNext ==
    \/ Tick
    \/ \E t \in Handlers, keywords \in SKeywords, page \in SPages :
           ProcessQuery(t, keywords, page)
    \/ \E t \in Handlers, keywords \in SKeywords : ProcessQueryBadPage(t, keywords)
    \/ \E t \in Handlers : ProcessQuerySearch(t)
    \/ \E t \in Handlers : ProcessQueryError(t)
    \/ \E t \in Handlers : ProcessQueryCache(t)

SpecSearch == SearchInit /\ [][SearchNext]_vars

\* C6: with the store unchanged, the result page and the page count served
\* from a cache hit are those the ranker computes for that request.
CacheHitEqualsLive ==
    (last.op = "search" /\ last.branch = "hit") =>
        LET live == LivePage(database, Strip(last.key), last.value, ResultsPerPage)
        IN  last.ret.urls = live.urls /\ last.ret.total_pages = live.total_pages

-----------------------------------------------------------------------------
(* The store on its own: the insert and update calls of SearchEngineDB,    *)
(* in any order, on a fresh database.  hist collects what insert_word and  *)
(* insert_document have returned.                                          *)

CacheOff == lru = <<>> /\ now = 0 /\ ghost = <<>>

StWords == {<<"a">>, <<"A">>}
StUrls == {"http://site/1", "http://site/2"}
StTitles == {<<>>, <<"T">>}
StWordIds == {1}
StDocIds == {1, 2}
StFonts == {1, 2}

StoreInit ==
    /\ CacheOff
    /\ last = NoCall
    /\ database = NewDB
    /\ hist = {}
    /\ ConcOff /\ CrawlOff

InsertWord(word) ==
    LET r == DBInsertWord(database, word)
        existed == DBGetWordId(database, word) # NoId
    IN  /\ database' = r.db
        /\ hist' = IF r.raised THEN hist
                   ELSE hist \cup {[kind |-> "word", text |-> word, id |-> r.ret]}
        /\ last' = [NoCall EXCEPT !.op = "insert_word", !.key = <<"word", word>>, !.ret = r.ret,
                                  !.branch = IF r.raised THEN "raised"
                                             ELSE IF existed THEN "dup" ELSE "new"]
        /\ UNCHANGED <<lru, now, ghost, concVars, crawlVars>>

InsertDocument(url, title) ==
    LET r == DBInsertDocument(database, url, title)
        existed == DBGetDocId(database, url) # NoId
    IN  /\ database' = r.db
        /\ hist' = IF r.raised THEN hist
                   ELSE hist \cup {[kind |-> "doc", text |-> url, id |-> r.ret]}
        /\ last' = [NoCall EXCEPT !.op = "insert_document", !.key = <<"doc", url, title>>,
                                  !.ret = r.ret,
                                  !.branch = IF r.raised THEN "raised"
                                             ELSE IF existed THEN "dup" ELSE "new"]
        /\ UNCHANGED <<lru, now, ghost, concVars, crawlVars>>

UpdateDocumentTitle(doc_id, title) ==
    /\ database' = DBUpdateDocumentTitle(database, doc_id, title)
    /\ last' = [NoCall EXCEPT !.op = "update_document_title", !.key = <<"title", doc_id, title>>]
    /\ UNCHANGED <<hist, lru, now, ghost, concVars, crawlVars>>

InsertInvertedIndex(word_id, doc_id, font_size) ==
    /\ database' = DBInsertInvertedIndex(database, word_id, doc_id, font_size)
    /\ last' = [NoCall EXCEPT !.op = "insert_inverted_index",
                              !.key = <<"posting", word_id, doc_id, font_size>>]
    /\ UNCHANGED <<hist, lru, now, ghost, concVars, crawlVars>>

InsertLink(from_doc_id, to_doc_id) ==
    /\ database' = DBInsertLink(database, from_doc_id, to_doc_id)
    /\ last' = [NoCall EXCEPT !.op = "insert_link", !.key = <<"link", from_doc_id, to_doc_id>>]
    /\ UNCHANGED <<hist, lru, now, ghost, concVars, crawlVars>>

StoreNext ==
    \/ \E word \in StWords : InsertWord(word)
    \/ \E url \in StUrls, title \in StTitles : InsertDocument(url, title)
    \/ \E doc_id \in StDocIds, title \in StTitles : UpdateDocumentTitle(doc_id, title)
    \/ \E word_id \in StWordIds, doc_id \in StDocIds, font_size \in StFonts :
           InsertInvertedIndex(word_id, doc_id, font_size)
    \/ \E from_doc_id \in StDocIds : \E to_doc_id \in StDocIds \ {from_doc_id} :
           InsertLink(from_doc_id, to_doc_id)

SpecStore == StoreInit /\ [][StoreNext]_vars

\* the rows that hold a text
WordRows(text) == {r \in database.lexicon : r.word = text}
DocRows(text) == {r \in database.docs : r.url = text}

\* whatever has been returned so far: equal texts got equal ids and
\* different texts different ids, and the text has exactly one row, the one
\* with the returned id
SameTextSameId ==
    /\ \A h1 \in hist, h2 \in hist :
           h1.kind = h2.kind => ((h1.text = h2.text) <=> (h1.id = h2.id))
    /\ \A h \in hist :
           IF h.kind = "word"
           THEN WordRows(h.text) = {[word_id |-> h.id, word |-> h.text]}
           ELSE /\ Cardinality(DocRows(h.text)) = 1
                /\ \A r \in DocRows(h.text) : r.doc_id = h.id

\* no insert raises
InsertReturns ==
    last.op \in {"insert_word", "insert_document"} =>
        /\ last.branch # "raised"
        /\ last.ret # NoId

\* an insert of a text that is already stored changes no table
DuplicateInsertStep ==
    (last'.op \in {"insert_word", "insert_document"} /\ last'.branch = "dup") =>
        database' = database

\* C8: insert_word and insert_document are idempotent upserts: inserting a
\* text again returns the id it got the first time and never raises,
\* different texts get different ids, every inserted text has exactly one
\* row, and the repeated insert leaves the tables as they were.
UpsertIdempotent ==
    [](SameTextSameId /\ InsertReturns) /\ [][DuplicateInsertStep]_vars

\* a word and a URL have each been inserted again after another text had
\* been inserted, the last call being such a repeated insert
UpsertIdempotentWitness ==
    /\ last.op = "insert_document" /\ last.branch = "dup"
    /\ Cardinality(database.docs) = 2
    /\ Cardinality(database.lexicon) = 2
    /\ Cardinality(hist) = 4

\* C20: after any sequence of store operations, every posting's term id and
\* document id refer to an existing lexicon row and an existing document row.
PostingsReferToRows ==
    \A x \in database.inverted :
        /\ \E w \in database.lexicon : w.word_id = x.word_id
        /\ \E d \in database.docs : d.doc_id = x.doc_id

-----------------------------------------------------------------------------
(* PageRank (Lab4/pagerank.py).  A link graph is a function from source    *)
(* page to the sequence of its targets; a score map is a function from     *)
(* page to a score in millionths.  A quotient is truncated toward zero.    *)

Damping == 85

Abs(x) == IF x < 0 THEN 0 - x ELSE x

\* the digits of r / b after the point, r < b, as many as unit has zeros
RECURSIVE FracPart(_, _, _)
FracPart(r, b, unit) ==
    IF unit = 1 THEN 0
    ELSE LET u == unit \div 10
         IN  ((r * 10) \div b) * u + FracPart((r * 10) % b, b, u)

\* score / total in millionths
FixDiv(a, b) ==
    LET q == (Abs(a) \div Abs(b)) * Scale + FracPart(Abs(a) % Abs(b), Abs(b), Scale)
    IN  IF (a < 0) = (b < 0) THEN q ELSE 0 - q

\* sum(scores.values())
RECURSIVE SumScores(_)
SumScores(scores) ==
    IF DOMAIN scores = {} THEN 0
    ELSE LET p == CHOOSE x \in DOMAIN scores : TRUE
         IN  scores[p] + SumScores([x \in DOMAIN scores \ {p} |-> scores[x]])

\* scores.values(), as a set
ScoreSet(scores) == {scores[p] : p \in DOMAIN scores}

\* pages: the sources and every target
Pages(links) == DOMAIN links \cup UNION {Range(links[s]) : s \in DOMAIN links}

\* inbound_links filled with the targets of a page instead of its sources
InboundCountOfTargets(links, source, page) ==
    IF page \in DOMAIN links
    THEN Cardinality({k \in 1..Len(links[page]) : links[page][k] = source})
    ELSE 0

\* how many times source is appended to inbound_links[page]
InboundCount(links, source, page) ==
    Cardinality({k \in 1..Len(links[source]) : links[source][k] = page})

\* outbound_count[page]
OutboundCount(links, page) ==
    LET n == IF page \in DOMAIN links THEN Len(links[page]) ELSE 0
    IN  IF n = 0 THEN Cardinality(Pages(links)) ELSE n

\* damping * (page_rank_scores[linking_page] / count)
Share(scores, linking_page, count) == (Damping * scores[linking_page]) \div (100 * count)

\* the rank of one page in one iteration, without the (1 - damping) term
NewRankZeroBase(links, scores, page) ==
    LET N == Cardinality(Pages(links))
        inbound == [s \in DOMAIN links |->
                      InboundCount(links, s, page)
                        * Share(scores, s, OutboundCount(links, s))]
        dangling == [p \in {x \in Pages(links) \ {page} : OutboundCount(links, x) = N} |->
                      Share(scores, p, N)]
    IN  SumScores(inbound) + SumScores(dangling)

\* the rank of one page in one iteration
NewRank(links, scores, page) ==
    LET N == Cardinality(Pages(links))
        inbound == [s \in DOMAIN links |->
                      InboundCount(links, s, page)
                        * Share(scores, s, OutboundCount(links, s))]
        dangling == [p \in {x \in Pages(links) \ {page} : OutboundCount(links, x) = N} |->
                      Share(scores, p, N)]
    IN  (Scale - (Damping * Scale) \div 100) + SumScores(inbound) + SumScores(dangling)

\* one pass of the loop over num_iterations
Iterate(links, scores) == [page \in Pages(links) |-> NewRank(links, scores, page)]

InitialScores(links) == [page \in Pages(links) |-> Scale]

\* n passes of the loop (a pass that changes no score is the last to change one)
RECURSIVE IterateTimes(_, _, _)
IterateTimes(links, scores, n) ==
    IF n = 0 THEN scores
    ELSE LET new_page_rank == Iterate(links, scores)
         IN  IF new_page_rank = scores THEN scores
             ELSE IterateTimes(links, new_page_rank, n - 1)

\* page_rank(links, num_iterations)
PageRank(links, num_iterations) == IterateTimes(links, InitialScores(links), num_iterations)

\* normalize_page_rank, dividing by the number of pages
NormalizeByCount(page_rank_scores) ==
    LET total == Cardinality(DOMAIN page_rank_scores) * Scale
    IN  IF total = 0 THEN page_rank_scores
        ELSE [page \in DOMAIN page_rank_scores |-> FixDiv(page_rank_scores[page], total)]

\* normalize_page_rank
NormalizePageRank(page_rank_scores) ==
    LET total == SumScores(page_rank_scores)
    IN  IF total = 0 THEN page_rank_scores
        ELSE [page \in DOMAIN page_rank_scores |-> FixDiv(page_rank_scores[page], total)]

\* SearchEngineDB.get_link_graph: the to_doc_ids of a from_doc_id are
\* appended in the order the rows come back, the order of their insertion
RECURSIVE TargetsOf(_, _)
TargetsOf(rows, from_id) ==
    IF rows = <<>> THEN <<>>
    ELSE (IF Head(rows)[1] = from_id THEN <<Head(rows)[2]>> ELSE <<>>)
             \o TargetsOf(Tail(rows), from_id)

DBGetLinkGraph(db) ==
    [from_id \in {l[1] : l \in Range(db.links)} |-> TargetsOf(db.links, from_id)]

\* SearchEngineDB.update_page_ranks: one UPDATE for each item, then the commit
DBUpdatePageRanks(db, page_ranks) ==
    [db EXCEPT !.docs =
        {IF r.doc_id \in DOMAIN page_ranks
         THEN [r EXCEPT !.page_rank = page_ranks[r.doc_id]] ELSE r : r \in @}]

\* doc_id -> page_rank of every row of DocumentIndex
StoredRanks(db) == [doc_id \in {r.doc_id : r \in db.docs} |-> DocRow(db, doc_id).page_rank]

-----------------------------------------------------------------------------
(* Calls of page_rank and normalize_page_rank.  pr.pc is where the call    *)
(* is: "scoring" inside the loop over num_iterations, "returned" after     *)
(* page_rank has returned pr.ret, "normalized" after normalize_page_rank   *)
(* has returned pr.ret for the argument pr.arg.                            *)

MaxIterations == 2
NumIterations == 20

\* a set of targets as the list of a link graph
GraphOver(S, targets) == [s \in S |-> Ascending(targets[s])]

\* the graph of test_page_rank_simple
SimpleGraph == (1 :> <<2, 3>>) @@ (2 :> <<3>>) @@ (3 :> <<1>>)
\* the graph of test_page_rank_no_inbound_links
ChainGraph == (1 :> <<2>>) @@ (2 :> <<3>>) @@ (3 :> <<4>>)
\* the graph of test_page_rank_dangling_nodes
DanglingGraph == (1 :> <<2>>) @@ (2 :> <<>>)
\* a page that links twice to the same page
RepeatGraph == (1 :> <<2, 2>>) @@ (3 :> <<>>)

LinkGraphs ==
    UNION {{GraphOver(S, t) : t \in [S -> SUBSET (1..3)]} : S \in SUBSET (1..3)}
      \cup {SimpleGraph, ChainGraph, DanglingGraph, RepeatGraph}

IterationCounts(links) ==
    1..MaxIterations \cup (IF links = SimpleGraph THEN {NumIterations} ELSE {})

ScoreValues == {0 - 2 * Scale, 0 - Scale, 0, Scale \div 2, Scale, 3 * Scale}

ScoreMaps == UNION {[S -> ScoreValues] : S \in SUBSET (1..3)}

NoPR == [pc |-> "idle", links |-> <<>>, num_iterations |-> 0, iteration |-> 0,
         scores |-> <<>>, arg |-> <<>>, ret |-> <<>>]

PRInit ==
    /\ CacheOff /\ StoreOff /\ ConcOff
    /\ last = NoCall
    /\ cr = <<>> /\ trace = <<>>
    /\ pr = NoPR

\* page_rank is called: the setup before the loop
PageRankCall(links, num_iterations) ==
    /\ pr.pc = "idle"
    /\ pr' = [pr EXCEPT !.pc = "scoring", !.links = links,
                        !.num_iterations = num_iterations,
                        !.scores = InitialScores(links)]
    /\ UNCHANGED <<cacheVars, storeVars, concVars, cr, trace>>

\* one iteration
PageRankIteration ==
    /\ pr.pc = "scoring"
    /\ pr.iteration < pr.num_iterations
    /\ pr' = [pr EXCEPT !.iteration = @ + 1, !.scores = Iterate(pr.links, @)]
    /\ UNCHANGED <<cacheVars, storeVars, concVars, cr, trace>>

\* return page_rank_scores
PageRankReturn ==
    /\ pr.pc = "scoring"
    /\ pr.iteration = pr.num_iterations
    /\ pr' = [pr EXCEPT !.pc = "returned", !.ret = pr.scores]
    /\ UNCHANGED <<cacheVars, storeVars, concVars, cr, trace>>

\* normalize_page_rank on a score map
NormalizeCall(page_rank_scores) ==
    /\ pr.pc = "idle"
    /\ pr' = [pr EXCEPT !.pc = "normalized", !.arg = page_rank_scores,
                        !.ret = NormalizePageRank(page_rank_scores)]
    /\ UNCHANGED <<cacheVars, storeVars, concVars, cr, trace>>

\* normalize_page_rank on what page_rank returned
NormalizeResult ==
    /\ pr.pc = "returned"
    /\ pr' = [pr EXCEPT !.pc = "normalized", !.arg = pr.ret,
                        !.ret = NormalizePageRank(pr.ret)]
    /\ UNCHANGED <<cacheVars, storeVars, concVars, cr, trace>>

PRNext ==
    \/ \E links \in LinkGraphs : \E n \in IterationCounts(links) : PageRankCall(links, n)
    \/ PageRankIteration
    \/ PageRankReturn
    \/ \E page_rank_scores \in ScoreMaps : NormalizeCall(page_rank_scores)
    \/ NormalizeResult

SpecPR == PRInit /\ [][PRNext]_vars

\* the input has a larger score for p than for q, and so has the result
SameOrder(arg, ret) ==
    \A p, q \in DOMAIN arg : arg[p] > arg[q] => ret[p] > ret[q]

\* the scores sum to 1.0, up to the truncation of one quotient per page
SumsToOne(scores) == Abs(SumScores(scores) - Scale) <= Cardinality(DOMAIN scores)

\* C11 as stated: for every non-empty score map with a non-zero total,
\* normalize_page_rank returns a map over the same pages whose scores sum to
\* 1.0 and in which a strictly larger input score has a strictly larger
\* normalized score.
NormalizeKeepsOrder ==
    (pr.pc = "normalized" /\ DOMAIN pr.arg # {} /\ SumScores(pr.arg) # 0)
        => /\ DOMAIN pr.ret = DOMAIN pr.arg
           /\ SumsToOne(pr.ret)
           /\ SameOrder(pr.arg, pr.ret)

\* C11, amended: for every non-empty score map with a non-zero total,
\* normalize_page_rank returns a map over the same pages whose scores sum to
\* 1.0; when the total is positive a strictly larger input score has a
\* strictly larger normalized score, and when the total is negative a
\* strictly larger input score has a strictly smaller one.
NormalizeKeepsOrderIfPositive ==
    (pr.pc = "normalized" /\ DOMAIN pr.arg # {} /\ SumScores(pr.arg) # 0)
        => /\ DOMAIN pr.ret = DOMAIN pr.arg
           /\ SumsToOne(pr.ret)
           /\ SumScores(pr.arg) > 0 => SameOrder(pr.arg, pr.ret)
           /\ SumScores(pr.arg) < 0 =>
                  \A p, q \in DOMAIN pr.arg : pr.arg[p] > pr.arg[q] => pr.ret[p] < pr.ret[q]

\* a map of three different scores, one of them negative, with a positive
\* total has been normalized
NormalizeKeepsOrderWitness ==
    /\ pr.pc = "normalized"
    /\ Cardinality(ScoreSet(pr.arg)) = 3
    /\ \E p \in DOMAIN pr.arg : pr.arg[p] < 0
    /\ SumScores(pr.arg) > 0
    /\ pr.ret # pr.arg

\* C13: for the graph {1: [2, 3], 2: [3], 3: [1]} and the default 20
\* iterations, page_rank gives document 3 a score strictly higher than
\* document 1 and strictly higher than document 2.
MostLinkedRanksHighest ==
    (pr.pc = "returned" /\ pr.links = SimpleGraph /\ pr.num_iterations = NumIterations)
        => /\ pr.ret[3] > pr.ret[1]
           /\ pr.ret[3] > pr.ret[2]

\* page_rank has returned for that graph after 20 iterations
MostLinkedRanksHighestWitness ==
    /\ pr.pc = "returned"
    /\ pr.links = SimpleGraph
    /\ pr.num_iterations = NumIterations
    /\ pr.iteration = NumIterations
    /\ DOMAIN pr.ret = {1, 2, 3}

\* a page with no inbound link, and a page with no outbound link
NoInbound(links, page) == \A s \in DOMAIN links : InboundCount(links, s, page) = 0
Dangling(links, page) == page \notin DOMAIN links \/ links[page] = <<>>

\* C14: for every link graph and every iteration count >= 1, page_rank has a
\* score for every page that is a source or a target, and after each
\* iteration every score is at least 1 - d = 0.15, so none is zero or
\* negative; pages with no inbound link and dangling pages included.
EveryPageScored ==
    (pr.pc \in {"scoring", "returned"})
        => /\ DOMAIN pr.scores = DOMAIN pr.links
                                   \cup UNION {Range(pr.links[s]) : s \in DOMAIN pr.links}
           /\ \A page \in DOMAIN pr.scores :
                  /\ pr.scores[page] >= Scale - (Damping * Scale) \div 100
                  /\ pr.scores[page] > 0
           /\ pr.pc = "returned" => pr.ret = pr.scores

\* page_rank has returned, after two iterations or more, for a graph with a
\* page that nothing links to and a dangling page that is only a target
EveryPageScoredWitness ==
    /\ pr.pc = "returned"
    /\ pr.iteration >= 2
    /\ \E page \in DOMAIN pr.ret : NoInbound(pr.links, page)
    /\ \E page \in DOMAIN pr.ret : page \notin DOMAIN pr.links
    /\ \E page \in DOMAIN pr.ret : page \in DOMAIN pr.links /\ pr.links[page] = <<>>

\* len(links.get(page, [])): the outbound edges of a page
OutDegree(links, page) == IF page \in DOMAIN links THEN Len(links[page]) ELSE 0

\* the rank of a page when exactly the pages with no outbound edge spread
\* score / N to every other page, and every other page gives
\* score / outDegree to each of its out-neighbours
RankByOutDegree(links, scores, page) ==
    LET N == Cardinality(Pages(links))
        inbound == [s \in {x \in DOMAIN links : OutDegree(links, x) > 0} |->
                      InboundCount(links, s, page) * Share(scores, s, OutDegree(links, s))]
        dangling == [p \in {x \in Pages(links) \ {page} : OutDegree(links, x) = 0} |->
                      Share(scores, p, N)]
    IN  (Scale - (Damping * Scale) \div 100) + SumScores(inbound) + SumScores(dangling)

\* an iteration of page_rank has just been made
IterationStep == pr.pc = "scoring" /\ pr'.pc = "scoring" /\ pr'.iteration = pr.iteration + 1

\* C23: page_rank spreads the score of a node as dangling mass (score / N to
\* every other node) if and only if the node has no outbound edge; a node
\* with an outbound edge gives score / outDegree to each of its
\* out-neighbours and nothing else, also when its out-degree is N.
DanglingIffNoOutEdge ==
    [][IterationStep =>
          \A page \in DOMAIN pr'.scores :
              pr'.scores[page] = RankByOutDegree(pr.links, pr.scores, page)]_vars

\* C24: each iteration of page_rank conserves the total rank: from the
\* initial score 1.0 of every node, the scores sum to the number of nodes N
\* after every iteration, for every graph, dangling nodes included (up to
\* the truncation of the quotients, one unit for each edge and node pair).
TotalRankConserved ==
    (pr.pc \in {"scoring", "returned"} /\ pr.links # <<>>) =>
        LET N == Cardinality(Pages(pr.links))
        IN  Abs(SumScores(pr.scores) - N * Scale) <= (N + 1) * N * pr.iteration

-----------------------------------------------------------------------------
(* Queries on the ranker.  The store has two documents and the words "ab"  *)
(* and "cd"; titles, postings and importance scores vary.  last is the     *)
(* call: key the list of query words, ret the list that came back.         *)

RankTitles == {<<>>, <<"a", "b">>, <<"A", "B", " ", "c", "d">>}
RankFonts == {0, 1, 2}
RankWords == <<(<<"a", "b">>), (<<"c", "d">>)>>
RankUnknown == <<"z", "z">>

\* the store after the inserts: fonts[w][d] = 0 is no posting of word w in document d
RankStore(titles, fonts, rank2) ==
    LET d1 == DBInsertDocument(NewDB, "http://site/1", <<>>).db
        d2 == DBInsertDocument(d1, "http://site/2", <<>>).db
        d3 == DBUpdateDocumentTitle(DBUpdateDocumentTitle(d2, 1, titles[1]), 2, titles[2])
        d4 == DBInsertWord(DBInsertWord(d3, RankWords[1]).db, RankWords[2]).db
        Post(db, w, d) ==
            IF fonts[w][d] = 0 THEN db ELSE DBInsertInvertedIndex(db, w, d, fonts[w][d])
        d5 == Post(Post(Post(Post(d4, 1, 1), 1, 2), 2, 1), 2, 2)
    IN  DBUpdatePageRanks(d5, (1 :> Scale) @@ (2 :> rank2))

RankStores ==
    {RankStore(titles, fonts, rank2) :
        titles \in [1..2 -> RankTitles],
        fonts \in [1..2 -> [1..2 -> RankFonts]],
        rank2 \in {Scale, Scale \div 2}}

RankQueries ==
    {<<RankWords[1], RankWords[2]>>, <<RankWords[1], RankWords[1]>>,
     <<RankWords[1], RankWords[1], RankWords[2]>>, <<RankWords[1], RankUnknown>>,
     <<RankUnknown, RankUnknown>>, <<RankUnknown, RankWords[2], RankWords[1]>>}

RankInit ==
    /\ CacheOff /\ ConcOff /\ CrawlOff
    /\ last = NoCall
    /\ hist = <<>>
    /\ database \in RankStores

\* ranker.rank_single_word(word, limit)
RankSingle(word, limit) ==
    /\ last = NoCall
    /\ last' = [op |-> "rank_single_word", key |-> <<word>>, value |-> limit,
                ret |-> RankSingleWord(database, word, limit), branch |-> "returned"]
    /\ UNCHANGED <<lru, now, ghost, storeVars, concVars, crawlVars>>

\* ranker.rank_multi_word(words, limit)
RankMulti(words, limit) ==
    /\ last = NoCall
    /\ last' = [op |-> "rank_multi_word", key |-> words, value |-> limit,
                ret |-> RankMultiWord(database, words, limit), branch |-> "returned"]
    /\ UNCHANGED <<lru, now, ghost, storeVars, concVars, crawlVars>>

RankNext ==
    \/ \E word \in Range(RankWords) \cup {RankUnknown} : RankSingle(word, RankLimit)
    \/ \E words \in RankQueries : RankMulti(words, RankLimit)

SpecRank == RankInit /\ [][RankNext]_vars

\* document doc_id has a row and a posting of the word
ContainsTerm(db, word, doc_id) ==
    /\ HasDoc(db, doc_id)
    /\ \E w \in db.lexicon : w.word = word /\
           \E x \in db.inverted : x.word_id = w.word_id /\ x.doc_id = doc_id

\* the documents with all, and with any, of the words
WithAll(db, words) ==
    {r.doc_id : r \in {x \in db.docs : \A i \in 1..Len(words) : ContainsTerm(db, words[i], x.doc_id)}}
WithAny(db, words) ==
    {r.doc_id : r \in {x \in db.docs : \E i \in 1..Len(words) : ContainsTerm(db, words[i], x.doc_id)}}

\* the documents of a result list
Returned(db, results) == {DBGetDocId(db, results[i].url) : i \in 1..Len(results)}

\* C15: for a query of two or more terms, repeated terms included,
\* rank_multi_word returns only documents that contain all of the query
\* terms whenever there is one, and the documents containing any query term
\* when there is none.
AllTermsElseAny ==
    (last.op = "rank_multi_word" /\ Len(last.key) >= 2)
        => IF WithAll(database, last.key) # {}
           THEN Returned(database, last.ret) \subseteq WithAll(database, last.key)
           ELSE Returned(database, last.ret) = WithAny(database, last.key)

\* the title of the document contains the term, letter case aside
TitleContains(db, word, doc_id) == IsSubstring(Lower(word), Lower(DocRow(db, doc_id).title))

\* the weight of the posting of a word in a document, and the postings of a document
PostingWeight(db, word, doc_id) ==
    (CHOOSE x \in db.inverted : x.word_id = DBGetWordId(db, word) /\ x.doc_id = doc_id).font_size
PostingCount(db, doc_id) == Cardinality({x \in db.inverted : x.doc_id = doc_id})

\* results i and j are of documents that differ in the title match only
TitleOnlyDiffers(db, word, results, i, j) ==
    LET a == DBGetDocId(db, results[i].url)
        b == DBGetDocId(db, results[j].url)
    IN  /\ PostingWeight(db, word, a) = PostingWeight(db, word, b)
        /\ PostingCount(db, a) = PostingCount(db, b)
        /\ DocRow(db, a).page_rank = DocRow(db, b).page_rank
        /\ TitleContains(db, word, a)
        /\ ~TitleContains(db, word, b)

\* C16: in rank_single_word, of two documents that contain the term and
\* have the same posting weight, the same number of postings and the same
\* importance score, the one whose title contains the term (as a substring,
\* letter case aside) has a strictly higher combined score and is listed
\* before the one whose title does not.
TitleMatchRanksFirst ==
    last.op = "rank_single_word"
        => \A i, j \in 1..Len(last.ret) :
               TitleOnlyDiffers(database, last.key[1], last.ret, i, j)
                   => last.ret[i].score > last.ret[j].score /\ i < j

\* such a pair has been ranked, the matching title being that of the
\* document with the larger id and differing from the term in letter case
TitleMatchRanksFirstWitness ==
    /\ last.op = "rank_single_word"
    /\ Len(last.ret) = 2
    /\ TitleOnlyDiffers(database, last.key[1], last.ret, 1, 2)
    /\ DBGetDocId(database, last.ret[1].url) = 2
    /\ ~IsSubstring(last.key[1], last.ret[1].title)

\* the words of a query that have an id
RECURSIVE KnownWords(_, _)
KnownWords(db, words) ==
    IF words = <<>> THEN <<>>
    ELSE (IF DBGetWordId(db, Head(words)) # NoId THEN <<Head(words)>> ELSE <<>>)
             \o KnownWords(db, Tail(words))

\* C17: a query term with no id in the lexicon never raises:
\* rank_single_word on an unknown term and rank_multi_word on unknown terms
\* only return the empty list, and in a mixed query the unknown terms add
\* nothing to any score: the result is that of the query without them.
UnknownTermsAddNothing ==
    /\ last.op \in {"rank_single_word", "rank_multi_word"} => last.branch = "returned"
    /\ (last.op = "rank_single_word" /\ DBGetWordId(database, last.key[1]) = NoId)
           => last.ret = <<>>
    /\ (last.op = "rank_multi_word" /\ KnownWords(database, last.key) = <<>>)
           => last.ret = <<>>
    /\ (last.op = "rank_multi_word" /\ KnownWords(database, last.key) # <<>>)
           => last.ret = RankMultiWord(database, KnownWords(database, last.key), last.value)

\* a query of a known and an unknown term has returned a document
UnknownTermsAddNothingWitness ==
    /\ last.op = "rank_multi_word"
    /\ KnownWords(database, last.key) # <<>>
    /\ KnownWords(database, last.key) # last.key
    /\ last.ret # <<>>
    /\ \E i \in 1..Len(last.ret) : last.ret[i].score > 0

-----------------------------------------------------------------------------
(* Crawler (Lab4/crawler.py).  A URL is the page it names and its          *)
(* fragment; an href is absolute ("http://site/<page>#<frag>"), relative   *)
(* ("<page>#<frag>", either part possibly empty), missing, or malformed    *)
(* ("http://[", on which urlparse raises ValueError).                      *)

Url(page, frag) == [page |-> page, frag |-> frag]
NoHref == [kind |-> "none", page |-> "", frag |-> ""]
AbsHref(page, frag) == [kind |-> "abs", page |-> page, frag |-> frag]
RelHref(page, frag) == [kind |-> "rel", page |-> page, frag |-> frag]
BadHref == [kind |-> "bad", page |-> "", frag |-> ""]

\* Crawler._fix_url: an absolute rel replaces curr_url and loses its
\* fragment in urldefrag; anything else is joined to the defragmented
\* curr_url by urljoin, which keeps the fragment of rel
FixUrl(curr_url, rel) ==
    IF rel.kind = "bad" THEN [url |-> curr_url, raised |-> "ValueError"]
    ELSE IF rel.kind = "abs" THEN [url |-> Url(rel.page, ""), raised |-> None]
    ELSE IF rel.page = "" THEN [url |-> Url(curr_url.page, rel.frag), raised |-> None]
    ELSE [url |-> Url(rel.page, rel.frag), raised |-> None]

\* A parsed page is the sequence of its nodes in document order (the order
\* of .next); node 1 is soup.html, parent 0 is the BeautifulSoup object.
TagNode(name, parent) ==
    [kind |-> "tag", name |-> name, parent |-> parent, href |-> NoHref, text |-> <<>>]
Anchor(parent, href) ==
    [kind |-> "tag", name |-> "a", parent |-> parent, href |-> href, text |-> <<>>]
TextNode(parent, text) ==
    [kind |-> "text", name |-> "", parent |-> parent, href |-> NoHref, text |-> text]

\* tag.next and tag.nextSibling, 0 for None
NextElement(doc, i) == IF i < Len(doc) THEN i + 1 ELSE 0
NextSibling(doc, i) ==
    IF i = 0 THEN 0
    ELSE LET later == {j \in (i + 1)..Len(doc) : doc[j].parent = doc[i].parent}
         IN  IF later = {} THEN 0 ELSE CHOOSE j \in later : \A k \in later : j <= k

Children(doc, i) == {j \in 1..Len(doc) : doc[j].parent = i}

\* " ".join(parts)
RECURSIVE JoinSpace(_)
JoinSpace(parts) ==
    IF parts = <<>> THEN <<>>
    ELSE IF Len(parts) = 1 THEN parts[1]
    ELSE parts[1] \o <<" ">> \o JoinSpace(Tail(parts))

\* Crawler._text_of
RECURSIVE TextOf(_, _)
TextOf(doc, i) ==
    IF doc[i].kind = "tag"
    THEN LET kids == Ascending(Children(doc, i))
         IN  JoinSpace([k \in 1..Len(kids) |-> TextOf(doc, kids[k])])
    ELSE doc[i].text

\* WORD_SEPARATORS matches every character outside [a-zA-Z0-9\-_]
WordChars ==
    {"a", "b", "c", "d", "e", "f", "g", "h", "i", "j", "k", "l", "m", "n", "o", "p", "q", "r",
     "s", "t", "u", "v", "w", "x", "y", "z", "A", "B", "C", "D", "E", "F", "G", "H", "I", "J",
     "K", "L", "M", "N", "O", "P", "Q", "R", "S", "T", "U", "V", "W", "X", "Y", "Z", "0", "1",
     "2", "3", "4", "5", "6", "7", "8", "9", "-", "_"}

\* WORD_SEPARATORS.split(s): the pieces between the separators, empty ones too
RECURSIVE SplitWords(_, _)
SplitWords(s, piece) ==
    IF s = <<>> THEN <<piece>>
    ELSE IF Head(s) \in WordChars THEN SplitWords(Tail(s), Append(piece, Head(s)))
    ELSE <<piece>> \o SplitWords(Tail(s), <<>>)

\* self._ignored_words
IgnoredWords ==
    {<<>>, <<"t", "h", "e">>, <<"o", "f">>, <<"a", "t">>, <<"o", "n">>, <<"i", "n">>,
     <<"i", "s">>, <<"i", "t">>, <<"a", "n", "d">>, <<"o", "r">>}
    \cup {<<ch>> : ch \in {"a", "b", "c", "d", "e", "f", "g", "h", "i", "j", "k", "l", "m",
                           "n", "o", "p", "q", "r", "s", "t", "u", "v", "w", "x", "y", "z"}}

\* self._ignored_tags
IgnoredTags ==
    {"meta", "script", "link", "embed", "iframe", "frame", "noscript", "object", "svg",
     "canvas", "applet", "frameset", "textarea", "style", "area", "map", "base", "basefont",
     "param"}

\* the factor of self._enter[name]; self._exit[name] takes it back
FontFactor(name) ==
    CASE name \in {"b", "strong"} -> 2
      [] name \in {"i", "em"} -> 1
      [] name \in {"h1", "title"} -> 7
      [] name = "h2" -> 6
      [] name = "h3" -> 5
      [] name = "h4" -> 4
      [] name = "h5" -> 3
      [] OTHER -> 0

\* Crawler.__init__.  seen and depth, the locals of crawl(), and the
\* position pc of the crawl are kept with the object; _curr_url and
\* _curr_words start as the empty URL and the empty list.
NewCrawler(seeds) ==
    [url_queue |-> [k \in 1..Len(seeds) |-> <<FixUrl(seeds[k], NoHref).url, 0>>],
     doc_id_cache |-> <<>>, word_id_cache |-> <<>>, link_cache |-> {},
     curr_depth |-> 0, curr_url |-> Url("", ""), curr_doc_id |-> 0,
     font_size |-> 0, curr_words |-> <<>>,
     seen |-> {}, depth |-> 0, pc |-> "idle"]

\* cache[key] = id
Remember(cache, key, id) ==
    [k \in DOMAIN cache \cup {key} |-> IF k = key THEN id ELSE cache[k]]

\* Crawler.word_id, on the pair of the crawler and its database
WordId(st, word) ==
    IF word \in DOMAIN st.c.word_id_cache
    THEN [st |-> st, ret |-> st.c.word_id_cache[word]]
    ELSE LET r == DBInsertWord(st.db, word)
         IN  [st |-> [st EXCEPT !.db = r.db,
                                !.c.word_id_cache = Remember(@, word, r.ret)],
              ret |-> r.ret]

\* Crawler.document_id
DocumentId(st, url) ==
    IF url \in DOMAIN st.c.doc_id_cache
    THEN [st |-> st, ret |-> st.c.doc_id_cache[url]]
    ELSE LET r == DBInsertDocument(st.db, url, <<>>)
         IN  [st |-> [st EXCEPT !.db = r.db,
                                !.c.doc_id_cache = Remember(@, url, r.ret)],
              ret |-> r.ret]

\* Crawler.add_link
AddLink(st, from_doc_id, to_doc_id) ==
    IF <<from_doc_id, to_doc_id>> \in st.c.link_cache THEN st
    ELSE [st EXCEPT !.db = DBInsertLink(@, from_doc_id, to_doc_id),
                    !.c.link_cache = @ \cup {<<from_doc_id, to_doc_id>>}]

\* Crawler._visit_title
VisitTitle(doc, st, i) ==
    [st EXCEPT !.db = DBUpdateDocumentTitle(@, st.c.curr_doc_id, Strip(TextOf(doc, i)))]

\* Crawler._visit_a
VisitA(doc, st, i) ==
    LET f == FixUrl(st.c.curr_url, doc[i].href)
    IN  IF f.raised # None THEN [st EXCEPT !.raised = f.raised]
        ELSE LET s1 == [st EXCEPT !.c.url_queue = Append(@, <<f.url, st.c.curr_depth>>)]
                 d == DocumentId(s1, f.url)
             IN  AddLink(d.st, st.c.curr_doc_id, d.ret)

\* the loop of Crawler._add_text over the split words
RECURSIVE AddWords(_, _)
AddWords(st, words) ==
    IF words = <<>> THEN st
    ELSE LET word == Strip(Head(words))
         IN  IF word \in IgnoredWords THEN AddWords(st, Tail(words))
             ELSE LET w == WordId(st, word)
                  IN  AddWords([w.st EXCEPT !.c.curr_words =
                                    Append(@, <<w.ret, st.c.font_size>>)],
                               Tail(words))

\* Crawler._add_text
AddText(doc, st, i) == AddWords(st, SplitWords(Lower(doc[i].text), <<>>))

\* stack[-1] and stack.pop().  An entry of the stack is the number of a tag;
\* the entry 0 is the DummyTag, whose name is '' and which is no node of the
\* page: it is not the BeautifulSoup object, the parent 0 of a node.
DummyTag == 0
Top(stack) == stack[Len(stack)]
Pop(stack) == SubSeq(stack, 1, Len(stack) - 1)
NodeName(doc, i) == IF i = DummyTag THEN "" ELSE doc[i].name

\* tag.parent != stack[-1]: the DummyTag is the parent of no tag
ParentIsNot(parent, top) == top = DummyTag \/ parent # top

\* self._exit[stack[-1].name.lower()](stack[-1]); stack.pop()
ExitTop(doc, st) ==
    IF st.stack = <<>> THEN [st EXCEPT !.raised = "IndexError"]
    ELSE [st EXCEPT !.c.font_size = @ - FontFactor(NodeName(doc, Top(st.stack))),
                    !.stack = Pop(@)]

\* self._enter[tag_name](tag); stack.append(tag)
EnterTag(doc, st, i) ==
    LET name == doc[i].name
        s1 == IF name = "a" THEN VisitA(doc, st, i)
              ELSE IF name = "title" THEN VisitTitle(doc, st, i)
              ELSE st
    IN  IF s1.raised # None THEN s1
        ELSE [s1 EXCEPT !.c.font_size = @ + FontFactor(name), !.stack = Append(@, i)]

\* one turn of the loop of Crawler._index_document on the node i = tag.next;
\* nxt is what tag.next will be at the next turn
VisitNode(doc, st, i) ==
    IF doc[i].kind = "text"
    THEN [st |-> AddText(doc, st, i), nxt |-> NextElement(doc, i)]
    ELSE IF st.stack = <<>>
    THEN [st |-> [st EXCEPT !.raised = "IndexError"], nxt |-> 0]
    ELSE LET s1 == IF ParentIsNot(doc[i].parent, Top(st.stack)) THEN ExitTop(doc, st)
                   ELSE st
         IN  IF s1.raised # None THEN [st |-> s1, nxt |-> 0]
             ELSE IF doc[i].name \in IgnoredTags
             THEN IF NextSibling(doc, i) # 0
                  THEN [st |-> s1, nxt |-> NextSibling(doc, i)]
                  ELSE [st |-> ExitTop(doc, s1), nxt |-> NextSibling(doc, doc[i].parent)]
             ELSE [st |-> EnterTag(doc, s1, i), nxt |-> NextElement(doc, i)]

RECURSIVE IndexFrom(_, _, _)
IndexFrom(doc, st, nxt) ==
    IF nxt = 0 \/ st.raised # None THEN st
    ELSE LET r == VisitNode(doc, st, nxt)
         IN  IndexFrom(doc, r.st, r.nxt)

\* Crawler._index_document; a page with no <html> is the empty sequence
IndexDocument(doc, st) ==
    IF doc = <<>> THEN st
    ELSE IndexFrom(doc, [st EXCEPT !.stack = <<DummyTag, 1>>], NextElement(doc, 1))

\* Crawler._add_words_to_document
RECURSIVE FlushWords(_, _, _)
FlushWords(db, doc_id, words) ==
    IF words = <<>> THEN db
    ELSE FlushWords(DBInsertInvertedIndex(db, Head(words)[1], doc_id, Head(words)[2]),
                    doc_id, Tail(words))

AddWordsToDocument(st) ==
    [st EXCEPT !.db = FlushWords(@, st.c.curr_doc_id, st.c.curr_words)]

\* the assignments before the indexing with self._curr_words left as the last page left it
BeginDocumentKeepWords(c, url, depth_, doc_id) ==
    [c EXCEPT !.curr_depth = depth_ + 1, !.curr_url = url, !.curr_doc_id = doc_id,
              !.font_size = 0]

\* crawl(): the assignments before self._index_document(soup)
BeginDocument(c, url, depth_, doc_id) ==
    [c EXCEPT !.curr_depth = depth_ + 1, !.curr_url = url, !.curr_doc_id = doc_id,
              !.font_size = 0, !.curr_words = <<>>]

\* a crawl that never records what it has seen
MarkSeenNever(c, doc_id) == c

\* crawl(): seen.add(doc_id)
MarkSeen(c, doc_id) == [c EXCEPT !.seen = @ \cup {doc_id}]

\* except Exception: every exception of the fetch and of the indexing
ExceptionTypes == {"URLError", "timeout", "HTTPError", "ValueError", "IndexError"}
Caught(kind) == kind \in ExceptionTypes

-----------------------------------------------------------------------------
(* A crawl of a small web.  urlopen(url) answers with the page the URL     *)
(* names (the fragment is not part of the request), fails with HTTPError   *)
(* for a page that does not exist, and may fail with URLError or a timeout *)
(* on any request.                                                         *)

\* <html><head><title>Pq</title></head><body>ab <b>cd</b> ef
\* <a href="http://site/p2#x">gh</a><a href="p3#y"></a></body></html>
PageP1 ==
    <<TagNode("html", 0), TagNode("head", 1), TagNode("title", 2),
      TextNode(3, <<"P", "q">>), TagNode("body", 1), TextNode(5, <<"a", "b", " ">>),
      TagNode("b", 5), TextNode(7, <<"c", "d">>), TextNode(5, <<" ", "e", "f">>),
      Anchor(5, AbsHref("p2", "x")), TextNode(10, <<"g", "h">>),
      Anchor(5, RelHref("p3", "y"))>>

\* <html><body><a href="p1"></a><a href="http://site/p3"></a>
\* <script>zz</script>cd ab<a></a></body></html>
PageP2 ==
    <<TagNode("html", 0), TagNode("body", 1), Anchor(2, RelHref("p1", "")),
      Anchor(2, AbsHref("p3", "")), TagNode("script", 2), TextNode(5, <<"z", "z">>),
      TextNode(2, <<"c", "d", " ", "a", "b">>), Anchor(2, NoHref)>>

\* <html><body><h1>ab</h1><a href="p4"></a><a href="http://site/p2"></a>
\* <a href="p9"></a>cd ab</body></html>
PageP3 ==
    <<TagNode("html", 0), TagNode("body", 1), TagNode("h1", 2), TextNode(3, <<"a", "b">>),
      Anchor(2, RelHref("p4", "")), Anchor(2, AbsHref("p2", "")),
      Anchor(2, RelHref("p9", "")), TextNode(2, <<"c", "d", " ", "a", "b">>)>>

\* <html><body>xy<a href="p1"></a><a href="http://["></a>uv</body></html>
PageP4 ==
    <<TagNode("html", 0), TagNode("body", 1), TextNode(2, <<"x", "y">>),
      Anchor(2, RelHref("p1", "")), Anchor(2, BadHref), TextNode(2, <<"u", "v">>)>>

\* <html><head><title>Ab</title></head><body><a href="p6"></a>
\* <a href="p7"></a><title>Pq</title></body></html>
PageP5 ==
    <<TagNode("html", 0), TagNode("head", 1), TagNode("title", 2),
      TextNode(3, <<"A", "b">>), TagNode("body", 1), Anchor(5, RelHref("p6", "")),
      Anchor(5, RelHref("p7", "")), TagNode("title", 5), TextNode(8, <<"P", "q">>)>>

\* <html><body><a href="p8"></a><a href="p6"></a></body></html>
PageP6 ==
    <<TagNode("html", 0), TagNode("body", 1), Anchor(2, RelHref("p8", "")),
      Anchor(2, RelHref("p6", ""))>>

\* <html><body><a href="p6"></a><div><p>ab<script>zz</script></p></div>
\* <a href="p5"></a>cd</body></html>
PageP7 ==
    <<TagNode("html", 0), TagNode("body", 1), Anchor(2, RelHref("p6", "")),
      TagNode("div", 2), TagNode("p", 4), TextNode(5, <<"a", "b">>),
      TagNode("script", 5), TextNode(7, <<"z", "z">>),
      Anchor(2, RelHref("p5", "")), TextNode(2, <<"c", "d">>)>>

\* <html><body>ef<a href="p5"></a></body></html>
PageP8 ==
    <<TagNode("html", 0), TagNode("body", 1), TextNode(2, <<"e", "f">>),
      Anchor(2, RelHref("p5", ""))>>

\* <html>ab cd</html><script>zz</script><script>zz</script><p>ef</p>:
\* what follows </html> has the BeautifulSoup object as its parent
PageP10 ==
    <<TagNode("html", 0), TextNode(1, <<"a", "b", " ", "c", "d">>),
      TagNode("script", 0), TextNode(3, <<"z", "z">>),
      TagNode("script", 0), TextNode(5, <<"z", "z">>),
      TagNode("p", 0), TextNode(7, <<"e", "f">>)>>

\* <html></html><script>zz</script><p>ab</p><p>cd</p>
PageP11 ==
    <<TagNode("html", 0), TagNode("script", 0), TextNode(2, <<"z", "z">>),
      TagNode("p", 0), TextNode(4, <<"a", "b">>), TagNode("p", 0), TextNode(6, <<"c", "d">>)>>

Web == [p1 |-> PageP1, p2 |-> PageP2, p3 |-> PageP3, p4 |-> PageP4,
        p5 |-> PageP5, p6 |-> PageP6, p7 |-> PageP7, p8 |-> PageP8,
        p10 |-> PageP10, p11 |-> PageP11]

\* the lines of the URL file
SeedLists ==
    {<<Url("p1", "")>>,
     <<Url("p1", ""), Url("p1", "")>>,
     <<Url("p3", ""), Url("p2", "f")>>,
     <<Url("p4", ""), Url("p9", ""), Url("p2", "")>>,
     <<Url("p5", "")>>,
     <<Url("p10", ""), Url("p11", "")>>}
Depths == {0, 1, 2}
NetworkErrors == {"URLError", "timeout"}

NewTrace == [fetched |-> <<>>, indexed |-> <<>>, enq |-> <<>>, failed |-> {}]

CrawlInit ==
    /\ CacheOff
    /\ last = NoCall
    /\ hist = <<>>
    /\ ConcOff
    /\ database = NewDB
    /\ \E seeds \in SeedLists : cr = NewCrawler(seeds)
    /\ trace = [NewTrace EXCEPT !.enq = cr.url_queue]
    /\ pr = NoPR

\* crawl(depth): the statements before the loop
CrawlStart(depth) ==
    /\ cr.pc = "idle"
    /\ cr' = [cr EXCEPT !.seen = {}, !.depth = depth, !.pc = "crawl"]
    /\ UNCHANGED <<trace, database, hist, lru, now, last, ghost, concVars, pr>>

\* url, depth_ = self._url_queue.pop()
Entry == cr.url_queue[Len(cr.url_queue)]
\* a turn that takes the entry and leaves it on the frontier
PoppedNothing == cr
Popped == [cr EXCEPT !.url_queue = Pop(@)]
InLoop == cr.pc = "crawl" /\ cr.url_queue # <<>>

\* doc_id = self.document_id(url)
Identified ==
    DocumentId([c |-> Popped, db |-> database, stack |-> <<>>, raised |-> None], Entry[1])

\* what a turn of the loop has appended to the queue
Enqueued(c) == SubSeq(c.url_queue, Len(cr.url_queue), Len(c.url_queue))

\* a turn of the loop that skips an entry that is too deep
SkipTooDeep ==
    /\ InLoop
    /\ Entry[2] > cr.depth
    /\ cr' = Popped
    /\ UNCHANGED <<trace, database, hist, lru, now, last, ghost, concVars, pr>>

\* a turn of the loop that skips a document it has seen
SkipSeen ==
    /\ InLoop
    /\ Entry[2] <= cr.depth
    /\ Identified.ret \in cr.seen
    /\ cr' = Identified.st.c
    /\ database' = Identified.st.db
    /\ UNCHANGED <<trace, hist, lru, now, last, ghost, concVars, pr>>

\* a turn of the loop in which urlopen or socket.read raises
FetchFails(kind) ==
    /\ InLoop
    /\ Entry[2] <= cr.depth
    /\ Identified.ret \notin cr.seen
    /\ \/ kind \in NetworkErrors
       \/ kind = "HTTPError" /\ Entry[1].page \notin DOMAIN Web
    /\ cr' = [MarkSeen(Identified.st.c, Identified.ret)
                 EXCEPT !.pc = IF Caught(kind) THEN "crawl" ELSE "aborted"]
    /\ database' = Identified.st.db
    /\ trace' = [trace EXCEPT !.fetched = Append(@, Entry[1]),
                              !.failed = @ \cup {<<Entry[1], kind>>}]
    /\ UNCHANGED <<hist, lru, now, last, ghost, concVars, pr>>

\* a turn of the loop in which the page arrives: it is indexed, and its
\* words are written unless the indexing raises
FetchAndIndex ==
    /\ InLoop
    /\ Entry[2] <= cr.depth
    /\ Identified.ret \notin cr.seen
    /\ Entry[1].page \in DOMAIN Web
    /\ LET c1 == BeginDocument(MarkSeen(Identified.st.c, Identified.ret),
                               Entry[1], Entry[2], Identified.ret)
           s2 == IndexDocument(Web[Entry[1].page], [Identified.st EXCEPT !.c = c1])
           s3 == IF s2.raised = None THEN AddWordsToDocument(s2) ELSE s2
       IN  /\ cr' = [s3.c EXCEPT !.pc = IF s2.raised = None \/ Caught(s2.raised)
                                       THEN "crawl" ELSE "aborted"]
           /\ database' = s3.db
           /\ trace' = [trace EXCEPT
                  !.fetched = Append(@, Entry[1]),
                  !.indexed = IF s2.raised = None THEN Append(@, Entry[1]) ELSE @,
                  !.enq = @ \o Enqueued(s3.c),
                  !.failed = IF s2.raised = None THEN @
                             ELSE @ \cup {<<Entry[1], s2.raised>>}]
    /\ UNCHANGED <<hist, lru, now, last, ghost, concVars, pr>>

\* the loop ends on the empty queue and crawl returns
CrawlReturn ==
    /\ cr.pc = "crawl"
    /\ cr.url_queue = <<>>
    /\ cr' = [cr EXCEPT !.pc = "done"]
    /\ UNCHANGED <<trace, database, hist, lru, now, last, ghost, concVars, pr>>

\* Crawler.compute_page_rank, after the crawl
ComputePageRank(num_iterations) ==
    /\ cr.pc = "done"
    /\ LET link_graph == DBGetLinkGraph(database)
           page_ranks == PageRank(link_graph, num_iterations)
           normalized == NormalizePageRank(page_ranks)
       IN  /\ pr' = [pc |-> "stored", links |-> link_graph,
                     num_iterations |-> num_iterations, iteration |-> num_iterations,
                     scores |-> page_ranks, arg |-> page_ranks, ret |-> normalized]
           /\ database' = DBUpdatePageRanks(database, normalized)
    /\ cr' = [cr EXCEPT !.pc = "ranked"]
    /\ UNCHANGED <<trace, hist, lru, now, last, ghost, concVars>>

CrawlNext ==
    \/ \E depth \in Depths : CrawlStart(depth)
    \/ SkipTooDeep
    \/ SkipSeen
    \/ \E kind \in NetworkErrors \cup {"HTTPError"} : FetchFails(kind)
    \/ FetchAndIndex
    \/ CrawlReturn
    \/ \E num_iterations \in {1, NumIterations} : ComputePageRank(num_iterations)

SpecCrawl == CrawlInit /\ [][CrawlNext]_vars

\* how often x occurs in a sequence
Count(xs, x) == Cardinality({k \in 1..Len(xs) : xs[k] = x})

\* the URLs put on the frontier so far, and the depths a URL was given
EnqueuedUrls == {trace.enq[k][1] : k \in 1..Len(trace.enq)}
EnqueuedDepths(url) == {trace.enq[k][2] : k \in {j \in 1..Len(trace.enq) : trace.enq[j][1] = url}}
TimesEnqueued(url) == Cardinality({k \in 1..Len(trace.enq) : trace.enq[k][1] = url})
FailedUrls == {f[1] : f \in trace.failed}

\* C9: within a crawl run every document, the row of a stored URL, is
\* fetched at most once and has its words written at most once, however
\* often the URL has been put on the frontier; two URLs never share an id.
FetchedAtMostOnce ==
    /\ \A url \in EnqueuedUrls :
           /\ Count(trace.fetched, url) <= 1
           /\ Count(trace.indexed, url) <= 1
    /\ \A u1 \in DOMAIN cr.doc_id_cache, u2 \in DOMAIN cr.doc_id_cache :
           cr.doc_id_cache[u1] = cr.doc_id_cache[u2] => u1 = u2

\* the crawl has returned; the seed file named a URL twice; a document was
\* put on the frontier three times and more, at two depths, and fetched
\* once; another, whose fetch failed, was put on the frontier again and not
\* fetched again
FetchedAtMostOnceWitness ==
    /\ cr.pc = "done"
    /\ Len(trace.enq) >= 2 /\ trace.enq[1] = trace.enq[2]
    /\ \E url \in EnqueuedUrls :
           /\ TimesEnqueued(url) >= 3
           /\ Cardinality(EnqueuedDepths(url)) >= 2
           /\ Count(trace.fetched, url) = 1
           /\ Count(trace.indexed, url) = 1
    /\ \E url \in FailedUrls :
           /\ TimesEnqueued(url) >= 2
           /\ Count(trace.fetched, url) = 1

\* the postings of a document as words and weights
WordOf(db, word_id) == (CHOOSE r \in db.lexicon : r.word_id = word_id).word
PostingsOf(db, url) ==
    {<<WordOf(db, r.word_id), r.font_size>> :
        r \in {x \in db.inverted : x.doc_id = DBGetDocId(db, url)}}

\* the postings a crawl writes for a URL that is alone on the frontier of a
\* fresh crawler
AlonePostings(url) ==
    LET d == DocumentId([c |-> NewCrawler(<<>>), db |-> NewDB, stack |-> <<>>,
                         raised |-> None], url)
        c1 == BeginDocument(MarkSeen(d.st.c, d.ret), url, 0, d.ret)
        s2 == IndexDocument(Web[url.page], [d.st EXCEPT !.c = c1])
    IN  PostingsOf(AddWordsToDocument(s2).db, url)

\* no exception leaves crawl()
NeverAborts == cr.pc # "aborted"

\* when crawl() has returned the frontier is empty and every entry that
\* was on it within the depth bound has been fetched
AllFetched ==
    cr.pc = "done" =>
        /\ cr.url_queue = <<>>
        /\ \A k \in 1..Len(trace.enq) :
               trace.enq[k][2] <= cr.depth => Count(trace.fetched, trace.enq[k][1]) = 1

\* every fetch that did not fail has written the postings of its page, the
\* ones it writes with nothing else on the frontier
PostingsIsolated ==
    \A url \in Range(trace.fetched) :
        \/ url \in FailedUrls /\ Count(trace.indexed, url) = 0
        \/ /\ url \notin FailedUrls
           /\ Count(trace.indexed, url) = 1
           /\ PostingsOf(database, url) = AlonePostings(url)

\* C10: a failure of the fetch or of the indexing of one URL does not end
\* the crawl: crawl() returns with the frontier empty, every other entry
\* within the depth bound is fetched, and the postings written for it are
\* the ones written when the failing URL is not there.
FailureIsolated == NeverAborts /\ AllFetched /\ PostingsIsolated

\* the crawl has returned after a request that failed and an indexing that
\* raised, and a page fetched after each of them has its postings
FailureIsolatedWitness ==
    /\ cr.pc = "done"
    /\ \E f \in trace.failed, g \in trace.failed :
           /\ f[2] = "ValueError" /\ g[2] \in NetworkErrors
           /\ \E i \in 1..Len(trace.fetched), j \in 1..Len(trace.fetched),
                 k \in 1..Len(trace.fetched) :
                  /\ i < k /\ j < k
                  /\ trace.fetched[i] = f[1] /\ trace.fetched[j] = g[1]
                  /\ Count(trace.indexed, trace.fetched[k]) = 1
                  /\ PostingsOf(database, trace.fetched[k]) # {}

\* self._curr_words after the indexing of a page that is alone on the
\* frontier of a fresh crawler, as words and weights in traversal order
AloneWords(url) ==
    LET d == DocumentId([c |-> NewCrawler(<<>>), db |-> NewDB, stack |-> <<>>,
                         raised |-> None], url)
        c1 == BeginDocument(MarkSeen(d.st.c, d.ret), url, 0, d.ret)
        s2 == IndexDocument(Web[url.page], [d.st EXCEPT !.c = c1])
    IN  [k \in 1..Len(s2.c.curr_words) |->
            <<WordOf(s2.db, s2.c.curr_words[k][1]), s2.c.curr_words[k][2]>>]

\* the last occurrences in a list of words and weights
LastOccurrences(words) ==
    {words[k] : k \in {i \in 1..Len(words) :
                          \A j \in (i + 1)..Len(words) : words[j][1] # words[i][1]}}

\* C21: the store never holds two postings for the same (term, document)
\* pair; a posting for a pair that is there replaces its weight and adds no
\* posting, so the postings of an indexed document are one for each of its
\* words, with the weight of the word's last occurrence in traversal order.
LastWeightKept ==
    /\ \A x \in database.inverted, y \in database.inverted :
           (x.word_id = y.word_id /\ x.doc_id = y.doc_id) => x = y
    /\ \A url \in Range(trace.indexed) :
           /\ PostingsOf(database, url) = LastOccurrences(AloneWords(url))
           /\ Cardinality({x \in database.inverted : x.doc_id = DBGetDocId(database, url)})
                  = Cardinality({w[1] : w \in Range(AloneWords(url))})

\* a page in which a word occurs twice, first with a weight and then with
\* none, has been indexed after another page that has the word
LastWeightKeptWitness ==
    /\ cr.pc = "done"
    /\ Len(trace.indexed) >= 2
    /\ \E url \in Range(trace.indexed) : \E i, j \in 1..Len(AloneWords(url)) :
           /\ url # trace.indexed[1]
           /\ i < j
           /\ AloneWords(url)[i][1] = AloneWords(url)[j][1]
           /\ AloneWords(url)[i][2] > AloneWords(url)[j][2]
           /\ AloneWords(url)[j] \in PostingsOf(database, url)
           /\ \E w \in PostingsOf(database, trace.indexed[1]) : w[1] = AloneWords(url)[j][1]

\* the title elements of a page, in document order
TitleElements(doc) == Ascending({i \in 1..Len(doc) : doc[i].kind = "tag" /\ doc[i].name = "title"})

\* C22: the title of a document is set once, by the first title element
\* parsed for it; a later title element of the same document, and a later
\* insert_document for the same URL, do not change the stored title.
TitleSetOnce ==
    \A url \in Range(trace.indexed) :
        TitleElements(Web[url.page]) # <<>> =>
            DocRow(database, DBGetDocId(database, url)).title
                = Strip(TextOf(Web[url.page], TitleElements(Web[url.page])[1]))

\* the sum of the weight deltas of the tags that enclose node i
RECURSIVE EnclosingWeight(_, _)
EnclosingWeight(doc, i) ==
    IF doc[i].parent = 0 THEN 0
    ELSE FontFactor(doc[doc[i].parent].name) + EnclosingWeight(doc, doc[i].parent)

\* the words of text node i that are not ignored
WordsOfText(doc, i) ==
    {Strip(w) : w \in Range(SplitWords(Lower(doc[i].text), <<>>))} \ IgnoredWords

\* C25: the weight recorded with a token is the sum of the weight deltas of
\* exactly the emphasis, heading and title tags that enclose its text node:
\* a delta added on entering a tag is removed when the tag is left, so text
\* after a closed tag does not carry the weight of that tag.
WeightOfEnclosingTags ==
    \A url \in Range(trace.indexed) : \A k \in 1..Len(AloneWords(url)) :
        \E i \in 1..Len(Web[url.page]) :
            /\ Web[url.page][i].kind = "text"
            /\ AloneWords(url)[k][1] \in WordsOfText(Web[url.page], i)
            /\ AloneWords(url)[k][2] = EnclosingWeight(Web[url.page], i)

\* the state after the indexing of a page that is alone on the frontier of
\* a fresh crawler
AloneIndexed(url) ==
    LET d == DocumentId([c |-> NewCrawler(<<>>), db |-> NewDB, stack |-> <<>>,
                         raised |-> None], url)
        c1 == BeginDocument(MarkSeen(d.st.c, d.ret), url, 0, d.ret)
    IN  IndexDocument(Web[url.page], [d.st EXCEPT !.c = c1])

\* node i is an ignored tag or lies in the subtree of one
RECURSIVE InIgnored(_, _)
InIgnored(doc, i) ==
    IF i = 0 THEN FALSE
    ELSE \/ (doc[i].kind = "tag" /\ doc[i].name \in IgnoredTags)
         \/ InIgnored(doc, doc[i].parent)

\* the text nodes and the link elements outside the ignored subtrees
TextOutside(doc) ==
    {i \in 1..Len(doc) : doc[i].kind = "text" /\ ~InIgnored(doc, i)}
LinksOutside(doc) ==
    {i \in 1..Len(doc) : doc[i].kind = "tag" /\ doc[i].name = "a" /\ ~InIgnored(doc, i)}

\* C26: skipping an ignored tag skips exactly its subtree: of a page that
\* is indexed without an exception the words recorded are the words of the
\* text nodes outside the ignored subtrees, none of a text inside one, and
\* every link element outside the ignored subtrees is visited and put on
\* the frontier, wherever the ignored tag sits in its parent.
IgnoredSubtreeOnly ==
    \A url \in Range(trace.indexed) :
        LET doc == Web[url.page]
            s2 == AloneIndexed(url)
        IN  s2.raised = None =>
                /\ {WordOf(s2.db, s2.c.curr_words[k][1]) : k \in 1..Len(s2.c.curr_words)}
                       = UNION {WordsOfText(doc, i) : i \in TextOutside(doc)}
                /\ Len(s2.c.url_queue) = Cardinality(LinksOutside(doc))

\* C27: a fragment is stripped before a link target is used, for absolute
\* and for relative targets alike: no URL put on the frontier and no
\* document URL held in the store contains a fragment, so two targets that
\* differ only in their fragments are one document.
NoFragmentStored ==
    /\ \A k \in 1..Len(trace.enq) : trace.enq[k][1].frag = ""
    /\ \A r \in database.docs : r.url.frag = ""

\* the URLs whose page arrived, and the link elements of a page that name a
\* target
Arrived ==
    {u \in Range(trace.fetched) :
        \A kind \in NetworkErrors \cup {"HTTPError"} : <<u, kind>> \notin trace.failed}
NamesTarget(href) ==
    href.kind \in {"abs", "rel"} /\ <<href.page, href.frag>> # <<"", "">>
LinkElements(doc) ==
    {i \in 1..Len(doc) : doc[i].kind = "tag" /\ doc[i].name = "a" /\ NamesTarget(doc[i].href)}

\* the link edges of the store, as pairs of URLs
LinkEdges(db) == {<<DocRow(db, e[1]).url, DocRow(db, e[2]).url>> : e \in Range(db.links)}

\* C28: the link graph holds the edge (A, B) exactly when the page of A
\* arrived and contains a link element whose target resolves to B; a link
\* element with a missing or empty href records no edge.
EdgesAsOnPages ==
    LinkEdges(database)
        = UNION {{<<a, FixUrl(a, Web[a.page][i].href).url>> : i \in LinkElements(Web[a.page])}
                    : a \in Arrived}

\* the documents of the store that are on no link edge
Isolated(db) == {r.doc_id : r \in db.docs} \ Pages(DBGetLinkGraph(db))

\* C12: after a crawl followed by compute_page_rank, the importance scores
\* of all documents held in the store sum to 1.0, for every crawl result,
\* documents with no inbound and no outbound link edge included.
StoredRanksSumToOne ==
    (cr.pc = "ranked" /\ database.docs # {}) => SumsToOne(StoredRanks(database))

\* the lines of the URL file: the frontier entries of depth 0
SeedEntries == {k \in 1..Len(trace.enq) : trace.enq[k][2] = 0}

\* the URLs the link elements of a page put on the frontier, and the URLs
\* within n links of a set of URLs
Targets(url) ==
    IF url.page \in DOMAIN Web
    THEN LET q == AloneIndexed(url).c.url_queue IN {q[k][1] : k \in 1..Len(q)}
    ELSE {}
RECURSIVE Within(_, _)
Within(urls, n) ==
    IF n = 0 THEN urls
    ELSE LET w == Within(urls, n - 1) IN w \cup UNION {Targets(u) : u \in w}

\* C29: when nothing fails, crawl(depth) fetches exactly the documents
\* whose shortest link distance from some seed is at most depth, whatever
\* the order of the links and whatever longer paths lead to a document.
FetchedWithinDepth ==
    (cr.pc = "done" /\ trace.failed = {}) =>
        Range(trace.fetched) = Within({trace.enq[k][1] : k \in SeedEntries}, cr.depth)

\* The turns of the loop of crawl() and its return.  crawl() is one
\* sequential loop: a turn that can be taken is taken, and a fetch ends
\* with a page or with an exception within its timeout.
CrawlLoop ==
    \/ SkipTooDeep
    \/ SkipSeen
    \/ \E kind \in NetworkErrors \cup {"HTTPError"} : FetchFails(kind)
    \/ FetchAndIndex
    \/ CrawlReturn

SpecCrawlFair == SpecCrawl /\ WF_vars(CrawlLoop)

\* C30: on a finite web and for every depth bound crawl() terminates, with
\* an empty frontier: a crawl that has started returns, also when the
\* pages link in cycles or to themselves, a seed is listed twice or URLs
\* fail.
CrawlTerminates == (cr.pc = "crawl") ~> (cr.pc = "done" /\ cr.url_queue = <<>>)

\* a crawl has returned after a page that links to itself was fetched, a
\* URL was put on the frontier several times and a fetch failed
CrawlTerminatesWitness ==
    /\ cr.pc = "done" /\ cr.url_queue = <<>>
    /\ \E url \in Range(trace.fetched) : url \in Targets(url)
    /\ \E url \in EnqueuedUrls : TimesEnqueued(url) >= 3
    /\ \E f \in trace.failed : f[2] \in NetworkErrors \cup {"HTTPError"}

\* C18: after crawling a seed file with a single URL at depth 0 the store's
\* document count, get_statistics()['total_documents'], is 1, whatever links
\* the seed page contains.
SingleSeedOneDocument ==
    (cr.pc = "done" /\ cr.depth = 0 /\ Cardinality(SeedEntries) = 1)
        => DBGetStatistics(database).total_documents = 1

-----------------------------------------------------------------------------
(* Threads on one LRUCache.  A call is a sequence of steps, one for each   *)
(* statement inside "with self.lock"; lru is the shared object, thr[t] the *)
(* call thread t is in with its locals, lock the thread that holds         *)
(* self.lock (0 for none).  seq is the cache on which every finished call  *)
(* has been applied as a whole, in the order the lock was released.        *)

Threads == {1, 2}
ConcMaxTime == 1
ConcMaxCount == 1
ConcCapacities == {1, 2}
ConcTTL == 0
ConcKeys == {MakeKey(<<"a">>, 1, 5), MakeKey(<<"b">>, 1, 5)}
ConcQueries == {<<"a">>}
ConcValues == {"v1"}

Idle ==
    [pc |-> "idle", op |-> "none", key |-> <<>>, value |-> None, t0 |-> 0,
     oldest_key |-> <<>>, keys_to_remove |-> <<>>, total_requests |-> 0, ret |-> None]

\* threading.Lock.acquire returns when no thread holds the lock
LockIgnored(t) == TRUE
LockFree(t) == lock = 0

\* the first statement inside "with self.lock" of each method
FirstStatement ==
    [get |-> "g55", put |-> "p81", clear |-> "c99", invalidate |-> "i203",
     get_stats |-> "s110", reset_stats |-> "r126"]

\* a whole call applied to a cache c: the cache after it and what it returns
Atomic(c, call) ==
    CASE call.op = "get" ->
             [c |-> LRUGet(c, call.key, call.t0).c, ret |-> LRUGet(c, call.key, call.t0).ret]
      [] call.op = "put" -> [c |-> LRUPut(c, call.key, call.value, call.t0), ret |-> None]
      [] call.op = "clear" -> [c |-> LRUClear(c), ret |-> None]
      [] call.op = "invalidate" -> [c |-> QCInvalidate(c, call.key), ret |-> None]
      [] call.op = "get_stats" -> [c |-> c, ret |-> LRUGetStats(c)]
      [] call.op = "reset_stats" -> [c |-> LRUResetStats(c), ret |-> None]

ConcInit ==
    /\ \E capacity \in ConcCapacities : lru = NewLRU(capacity, ConcTTL)
    /\ seq = lru
    /\ now = 0
    /\ last = NoCall
    /\ ghost = <<>>
    /\ thr = [t \in Threads |-> Idle]
    /\ lock = 0
    /\ StoreOff /\ CrawlOff

ConcTick ==
    /\ now < ConcMaxTime
    /\ now' = now + 1
    /\ UNCHANGED <<lru, last, ghost, thr, lock, seq, storeVars, crawlVars>>

\* thread t calls a method and comes to its "with self.lock"
Call(t, op, key, value) ==
    /\ thr[t].pc = "idle"
    /\ op = "get" => lru.hits + lru.misses < ConcMaxCount
    /\ op = "put" => lru.evictions < ConcMaxCount
    /\ thr' = [thr EXCEPT ![t] = [Idle EXCEPT !.pc = "lock", !.op = op,
                                              !.key = key, !.value = value]]
    /\ UNCHANGED <<lru, now, last, ghost, lock, seq, storeVars, crawlVars>>

\* self.lock.__enter__: thread t gets the lock
Acquire(t) ==
    /\ thr[t].pc = "lock"
    /\ LockFree(t)
    /\ lock' = t
    /\ thr' = [thr EXCEPT ![t].pc = FirstStatement[thr[t].op]]
    /\ UNCHANGED <<lru, now, last, ghost, seq, storeVars, crawlVars>>

\* thread t runs the statement at its pc: the object becomes c and the
\* locals of the call become call
Step(t, c, call) ==
    /\ lru' = c
    /\ thr' = [thr EXCEPT ![t] = call]
    /\ UNCHANGED <<now, last, ghost, lock, seq, storeVars, crawlVars>>

\* an exception leaves the with block
Raise(t, error) == Step(t, lru, [thr[t] EXCEPT !.pc = "unlock", !.ret = error])

Goto(t, pc) == Step(t, lru, [thr[t] EXCEPT !.pc = pc])

\* get, line 55: if key not in self.cache
GetTest(t) ==
    /\ thr[t].pc = "g55"
    /\ Goto(t, IF thr[t].key \notin CacheKeys(lru.cache) THEN "g56" ELSE "g60")

\* get, lines 56-57 and 64-65: self.misses += 1; return None
GetMiss(t) ==
    /\ thr[t].pc \in {"g56", "g64"}
    /\ Step(t, [lru EXCEPT !.misses = @ + 1], [thr[t] EXCEPT !.pc = "unlock", !.ret = None])

\* get, line 60: if time.time() - self.timestamps[key] > self.ttl
GetExpiry(t) ==
    /\ thr[t].pc = "g60"
    /\ IF thr[t].key \notin DOMAIN lru.timestamps THEN Raise(t, "KeyError")
       ELSE Step(t, lru, [thr[t] EXCEPT !.t0 = now,
                              !.pc = IF Expired(lru, thr[t].key, now) THEN "g62" ELSE "g68"])

\* get, line 62: del self.cache[key]
GetDelCache(t) ==
    /\ thr[t].pc = "g62"
    /\ IF thr[t].key \notin CacheKeys(lru.cache) THEN Raise(t, "KeyError")
       ELSE Step(t, [lru EXCEPT !.cache = DelKey(@, thr[t].key)], [thr[t] EXCEPT !.pc = "g63"])

\* get, line 63: del self.timestamps[key]
GetDelStamp(t) ==
    /\ thr[t].pc = "g63"
    /\ IF thr[t].key \notin DOMAIN lru.timestamps THEN Raise(t, "KeyError")
       ELSE Step(t, [lru EXCEPT !.timestamps = DictDel(@, thr[t].key)],
                    [thr[t] EXCEPT !.pc = "g64"])

\* get, line 68: self.cache.move_to_end(key)
GetMove(t) ==
    /\ thr[t].pc = "g68"
    /\ IF thr[t].key \notin CacheKeys(lru.cache) THEN Raise(t, "KeyError")
       ELSE Step(t, [lru EXCEPT !.cache = MoveToEnd(@, thr[t].key)],
                    [thr[t] EXCEPT !.pc = "g69"])

\* get, line 69: self.hits += 1
GetHit(t) ==
    /\ thr[t].pc = "g69"
    /\ Step(t, [lru EXCEPT !.hits = @ + 1], [thr[t] EXCEPT !.pc = "g70"])

\* get, line 70: return self.cache[key]
GetReturn(t) ==
    /\ thr[t].pc = "g70"
    /\ IF thr[t].key \notin CacheKeys(lru.cache) THEN Raise(t, "KeyError")
       ELSE Step(t, lru, [thr[t] EXCEPT !.pc = "unlock",
                              !.ret = lru.cache[Lookup(lru.cache, thr[t].key)].value])

\* put, line 81: if key in self.cache
PutTest(t) ==
    /\ thr[t].pc = "p81"
    /\ Goto(t, IF thr[t].key \in CacheKeys(lru.cache) THEN "p83" ELSE "p86")

\* put, line 83: self.cache.move_to_end(key)
PutMove(t) ==
    /\ thr[t].pc = "p83"
    /\ IF thr[t].key \notin CacheKeys(lru.cache) THEN Raise(t, "KeyError")
       ELSE Step(t, [lru EXCEPT !.cache = MoveToEnd(@, thr[t].key)],
                    [thr[t] EXCEPT !.pc = "p93"])

\* put, line 86: if len(self.cache) >= self.capacity
PutFull(t) ==
    /\ thr[t].pc = "p86"
    /\ Goto(t, IF Len(lru.cache) >= lru.capacity THEN "p88" ELSE "p93")

\* put, line 88: oldest_key = next(iter(self.cache))
PutOldest(t) ==
    /\ thr[t].pc = "p88"
    /\ IF lru.cache = <<>> THEN Raise(t, "StopIteration")
       ELSE Step(t, lru, [thr[t] EXCEPT !.pc = "p89", !.oldest_key = Head(lru.cache).key])

\* put, line 89: del self.cache[oldest_key]
PutDelCache(t) ==
    /\ thr[t].pc = "p89"
    /\ IF thr[t].oldest_key \notin CacheKeys(lru.cache) THEN Raise(t, "KeyError")
       ELSE Step(t, [lru EXCEPT !.cache = DelKey(@, thr[t].oldest_key)],
                    [thr[t] EXCEPT !.pc = "p90"])

\* put, line 90: del self.timestamps[oldest_key]
PutDelStamp(t) ==
    /\ thr[t].pc = "p90"
    /\ IF thr[t].oldest_key \notin DOMAIN lru.timestamps THEN Raise(t, "KeyError")
       ELSE Step(t, [lru EXCEPT !.timestamps = DictDel(@, thr[t].oldest_key)],
                    [thr[t] EXCEPT !.pc = "p91"])

\* put, line 91: self.evictions += 1
PutCount(t) ==
    /\ thr[t].pc = "p91"
    /\ Step(t, [lru EXCEPT !.evictions = @ + 1], [thr[t] EXCEPT !.pc = "p93"])

\* put, line 93: self.cache[key] = value
PutStore(t) ==
    /\ thr[t].pc = "p93"
    /\ Step(t, [lru EXCEPT !.cache = SetItem(@, thr[t].key, thr[t].value)],
               [thr[t] EXCEPT !.pc = "p94"])

\* put, line 94: self.timestamps[key] = time.time()
PutStamp(t) ==
    /\ thr[t].pc = "p94"
    /\ Step(t, [lru EXCEPT !.timestamps = DictSet(@, thr[t].key, now)],
               [thr[t] EXCEPT !.pc = "unlock", !.t0 = now])

\* clear, line 99: self.cache.clear()
ClearCache(t) ==
    /\ thr[t].pc = "c99"
    /\ Step(t, [lru EXCEPT !.cache = <<>>], [thr[t] EXCEPT !.pc = "c100"])

\* clear, line 100: self.timestamps.clear()
ClearStamps(t) ==
    /\ thr[t].pc = "c100"
    /\ Step(t, [lru EXCEPT !.timestamps = <<>>], [thr[t] EXCEPT !.pc = "unlock"])

\* the keys of od, oldest first, that start with prefix
RECURSIVE KeysWithPrefix(_, _)
KeysWithPrefix(od, prefix) ==
    IF od = <<>> THEN <<>>
    ELSE IF StartsWith(Head(od).key, prefix)
    THEN <<Head(od).key>> \o KeysWithPrefix(Tail(od), prefix)
    ELSE KeysWithPrefix(Tail(od), prefix)

\* invalidate, lines 203-206: keys_to_remove = [...]
InvSelect(t) ==
    /\ thr[t].pc = "i203"
    /\ Step(t, lru, [thr[t] EXCEPT !.pc = "i207",
                         !.keys_to_remove =
                             KeysWithPrefix(lru.cache, NormalizeQuery(thr[t].key) \o Colon)])

\* invalidate, lines 207-208: for key in keys_to_remove: del self.cache.cache[key]
InvDelCache(t) ==
    /\ thr[t].pc = "i207"
    /\ IF thr[t].keys_to_remove = <<>> THEN Goto(t, "unlock")
       ELSE IF Head(thr[t].keys_to_remove) \notin CacheKeys(lru.cache)
       THEN Raise(t, "KeyError")
       ELSE Step(t, [lru EXCEPT !.cache = DelKey(@, Head(thr[t].keys_to_remove))],
                    [thr[t] EXCEPT !.pc = "i209"])

\* invalidate, lines 209-210: if key in self.cache.timestamps: del ...
InvDelStamp(t) ==
    /\ thr[t].pc = "i209"
    /\ Step(t, [lru EXCEPT !.timestamps =
                    IF Head(thr[t].keys_to_remove) \in DOMAIN @
                    THEN DictDel(@, Head(thr[t].keys_to_remove)) ELSE @],
               [thr[t] EXCEPT !.pc = "i207", !.keys_to_remove = Tail(@)])

\* get_stats, line 110: total_requests = self.hits + self.misses
StatsTotal(t) ==
    /\ thr[t].pc = "s110"
    /\ Step(t, lru, [thr[t] EXCEPT !.pc = "s113", !.total_requests = lru.hits + lru.misses])

\* get_stats, lines 113-121: return {...}
StatsReturn(t) ==
    /\ thr[t].pc = "s113"
    /\ Step(t, lru, [thr[t] EXCEPT !.pc = "unlock",
                         !.ret = [capacity |-> lru.capacity, size |-> Len(lru.cache),
                                  hits |-> lru.hits, misses |-> lru.misses,
                                  evictions |-> lru.evictions,
                                  total_requests |-> thr[t].total_requests]])

\* reset_stats, lines 126, 127, 128
ResetHits(t) ==
    /\ thr[t].pc = "r126"
    /\ Step(t, [lru EXCEPT !.hits = 0], [thr[t] EXCEPT !.pc = "r127"])

ResetMisses(t) ==
    /\ thr[t].pc = "r127"
    /\ Step(t, [lru EXCEPT !.misses = 0], [thr[t] EXCEPT !.pc = "r128"])

ResetEvictions(t) ==
    /\ thr[t].pc = "r128"
    /\ Step(t, [lru EXCEPT !.evictions = 0], [thr[t] EXCEPT !.pc = "unlock"])

\* the with block is left: the lock is released and the call returns
Release(t) ==
    /\ thr[t].pc = "unlock"
    /\ lock' = 0
    /\ seq' = Atomic(seq, thr[t]).c
    /\ thr' = [thr EXCEPT ![t] = Idle]
    /\ UNCHANGED <<lru, now, last, ghost, storeVars, crawlVars>>

ConcNext ==
    \/ ConcTick
    \/ \E t \in Threads :
          \/ \E key \in ConcKeys : Call(t, "get", key, None)
          \/ \E key \in ConcKeys, value \in ConcValues : Call(t, "put", key, value)
          \/ Call(t, "clear", <<>>, None)
          \/ \E query \in ConcQueries : Call(t, "invalidate", query, None)
          \/ Call(t, "get_stats", <<>>, None)
          \/ Call(t, "reset_stats", <<>>, None)
          \/ Acquire(t)
          \/ GetTest(t) \/ GetMiss(t) \/ GetExpiry(t) \/ GetDelCache(t) \/ GetDelStamp(t)
          \/ GetMove(t) \/ GetHit(t) \/ GetReturn(t)
          \/ PutTest(t) \/ PutMove(t) \/ PutFull(t) \/ PutOldest(t) \/ PutDelCache(t)
          \/ PutDelStamp(t) \/ PutCount(t) \/ PutStore(t) \/ PutStamp(t)
          \/ ClearCache(t) \/ ClearStamps(t)
          \/ InvSelect(t) \/ InvDelCache(t) \/ InvDelStamp(t)
          \/ StatsTotal(t) \/ StatsReturn(t)
          \/ ResetHits(t) \/ ResetMisses(t) \/ ResetEvictions(t)
          \/ Release(t)

SpecConc == ConcInit /\ [][ConcNext]_vars

\* every entry has its timestamp and the size is within the capacity
Consistent(c) ==
    /\ DOMAIN c.timestamps = CacheKeys(c.cache)
    /\ Len(c.cache) <= c.capacity

\* thread t is inside a with block
Inside(t) == thr[t].pc \notin {"idle", "lock"}

\* at most one thread is inside a with block, the one that holds the lock
MutualExclusion ==
    /\ \A t1 \in Threads, t2 \in Threads : (Inside(t1) /\ Inside(t2)) => t1 = t2
    /\ \A t \in Threads : Inside(t) <=> lock = t

\* the first statements, where a thread has just taken the lock
FirstStatements ==
    {FirstStatement[op] : op \in {"get", "put", "clear", "invalidate", "get_stats",
                                  "reset_stats"}}

\* the object a thread finds when it has the lock, and the object between
\* calls, is the one the finished calls leave when run one after the other
ObservedIsSequential ==
    \A t \in Threads :
        (thr[t].pc \in FirstStatements \/ lock = 0) => (lru = seq /\ Consistent(lru))

\* a call about to return has changed the object and computed its result
\* as the whole method does on the object it found
CallIsAtomic ==
    \A t \in Threads :
        thr[t].pc = "unlock" =>
            /\ lru = Atomic(seq, thr[t]).c
            /\ thr[t].ret = Atomic(seq, thr[t]).ret

\* C7: under any interleaving of get, put, clear, invalidate, get_stats and
\* reset_stats by concurrent threads each call takes effect as a whole
\* while it holds the lock: entries, order, timestamps and counters are
\* those of the calls run one after the other in the order of their
\* releases, and no thread finds an entry without a timestamp or more
\* entries than the capacity.
CallsAreSerialized == MutualExclusion /\ ObservedIsSequential /\ CallIsAtomic

\* a thread is between lines 93 and 94 of put, the new entry stored with no
\* timestamp yet and an eviction behind it, while the other thread has
\* called get and waits for the lock
CallsAreSerializedWitness ==
    \E t1 \in Threads, t2 \in Threads :
        /\ thr[t1].pc = "p94" /\ lru.evictions > seq.evictions
        /\ ~Consistent(lru)
        /\ thr[t2].pc = "lock" /\ thr[t2].op = "get"
        /\ seq.cache # <<>>

-----------------------------------------------------------------------------
(* update_page_ranks and a reader on a second connection.  database is    *)
(* the committed content of the database file, which is what another      *)
(* connection reads; thr[1] is the writing call: its position, its        *)
(* argument, the items the loop has still to visit and view, the content  *)
(* as its own connection sees it, uncommitted UPDATEs included.  The      *)
(* first UPDATE opens the transaction (sqlite3's implicit BEGIN) and      *)
(* takes the write lock; commit() publishes view.  seq is the content     *)
(* when the call was made and hist what the reader has seen.              *)

PublishStore ==
    LET d1 == DBInsertDocument(NewDB, "http://site/1", <<>>).db
        d2 == DBInsertDocument(d1, "http://site/2", <<>>).db
    IN  DBInsertDocument(d2, "http://site/3", <<>>).db

PublishedScores == {Scale \div 4, Scale \div 2}

PageRankMaps == UNION {[S -> PublishedScores] : S \in SUBSET (1..3)}

\* the statement after the loop header: the next UPDATE, or the commit after the loop
NextStatementCommitting(items) == "commit"

NextStatement(items) == IF items = {} THEN "commit" ELSE "update"

PublishInit ==
    /\ CacheOff /\ CrawlOff
    /\ last = NoCall
    /\ database \in {PublishStore,
                     DBUpdatePageRanks(PublishStore, (1 :> Scale \div 2) @@ (2 :> Scale \div 2))}
    /\ hist = {}
    /\ thr = <<[pc |-> "idle", page_ranks |-> <<>>, items |-> {}, view |-> database]>>
    /\ lock = 0
    /\ seq = database

\* db.update_page_ranks(page_ranks) is called
UpdatePageRanksCall(page_ranks) ==
    /\ thr[1].pc = "idle"
    /\ thr' = [thr EXCEPT ![1] = [pc |-> NextStatement(DOMAIN page_ranks),
                                  page_ranks |-> page_ranks,
                                  items |-> DOMAIN page_ranks, view |-> database]]
    /\ UNCHANGED <<cacheVars, storeVars, lock, seq, crawlVars>>

\* one UPDATE DocumentIndex SET page_rank = ? WHERE doc_id = ?
UpdateRow(doc_id) ==
    /\ thr[1].pc = "update"
    /\ doc_id \in thr[1].items
    /\ thr' = [thr EXCEPT ![1].view = DBUpdatePageRanks(@, (doc_id :> thr[1].page_ranks[doc_id])),
                          ![1].items = @ \ {doc_id},
                          ![1].pc = NextStatement(thr[1].items \ {doc_id})]
    /\ lock' = 1
    /\ UNCHANGED <<cacheVars, storeVars, seq, crawlVars>>

\* self.conn.commit()
Commit ==
    /\ thr[1].pc = "commit"
    /\ database' = thr[1].view
    /\ lock' = 0
    /\ thr' = [thr EXCEPT ![1].pc = IF thr[1].items = {} THEN "done" ELSE "update"]
    /\ UNCHANGED <<cacheVars, hist, seq, crawlVars>>

\* a SELECT of every document's score on the other connection
ReadScores ==
    /\ hist' = hist \cup {[rows |-> StoredRanks(database), uncommitted |-> lock = 1]}
    /\ UNCHANGED <<cacheVars, database, concVars, crawlVars>>

PublishNext ==
    \/ \E page_ranks \in PageRankMaps : UpdatePageRanksCall(page_ranks)
    \/ \E doc_id \in 1..3 : UpdateRow(doc_id)
    \/ Commit
    \/ ReadScores

SpecPublish == PublishInit /\ [][PublishNext]_vars

\* the scores before the call, and the scores the call is to store
OldScores == StoredRanks(seq)
NewScores == StoredRanks(DBUpdatePageRanks(seq, thr[1].page_ranks))

\* C19: update_page_ranks publishes the new scores atomically: a reader on
\* another connection, running concurrently with the update, sees all
\* documents with their old scores or all with their new scores, never a
\* mix of old and new rows.
ScoresPublishedAtomically ==
    \A o \in hist : o.rows = OldScores \/ o.rows = NewScores

\* the reader has read while an UPDATE was uncommitted, and again after the
\* commit, and the call has written two scores that differ from the old ones
ScoresPublishedAtomicallyWitness ==
    /\ thr[1].pc = "done"
    /\ \E a, b \in DOMAIN thr[1].page_ranks :
           /\ a # b
           /\ NewScores[a] # OldScores[a]
           /\ NewScores[b] # OldScores[b]
    /\ \E o \in hist : o.uncommitted /\ o.rows = OldScores
    /\ \E o \in hist : ~o.uncommitted /\ o.rows = NewScores

=============================================================================
